---- MODULE Spec2Model ----
(***************************************************************************)
(* A model of src/src/index.js of conventional-commits-changelog: the      *)
(* version locator (findPreviousVersion) and the commit message classifier *)
(* (getMessageType).  The exported functions are pure, so a behaviour is   *)
(* one call: Init draws the arguments, the function's action applies it    *)
(* and stores what the call produced (a returned value or a thrown error). *)
(***************************************************************************)
EXTENDS Integers, Sequences, FiniteSets, TLC

\* Longest `versions` array passed to findPreviousVersion.
MaxLen == 3
\* Most words that follow the first word of a message.
MaxTail == 1

(***************************************************************************)
(* JavaScript values.  A version-like string is kept as its parts: the     *)
(* leading "v" (or none), the dot-separated numbers that follow (none for  *)
(* a string without a digit, up to three), and the prerelease identifier.  *)
(* Str("v", <<1, 0>>, "") is "v1.0", Str("", <<>>, "") is "abc".           *)
(***************************************************************************)
Null == [kind |-> "null"]
Undefined == [kind |-> "undefined"]
Str(v, nums, pre) == [kind |-> "string", v |-> v, nums |-> nums, pre |-> pre]
Text(t) == [kind |-> "string", text |-> t]
Num(n) == [kind |-> "number", n |-> n]
Arr(items) == [kind |-> "array", items |-> items]
Return(value) == [kind |-> "return", value |-> value]
Throw(error) == [kind |-> "throw", error |-> error]
Pending == [kind |-> "pending"]

----------------------------------------------------------------------------
(* semver, as index.js uses it *)

\* A SemVer object (typedef SemVer): major, minor, patch and the prerelease.
SemVer(major, minor, patch, pre) ==
    [kind |-> "semver", major |-> major, minor |-> minor, patch |-> patch, pre |-> pre]

\* semver.coerce(version, { includePrerelease: true }): the first run of
\* digits is the major, missing minor and patch become 0, the leading "v" is
\* dropped, the prerelease kept; null when the string holds no digit or the
\* value is no string.
coerce(version) ==
    IF version.kind # "string" \/ "nums" \notin DOMAIN version THEN Null
    ELSE IF Len(version.nums) = 0 THEN Null
    ELSE SemVer(version.nums[1],
                IF Len(version.nums) >= 2 THEN version.nums[2] ELSE 0,
                IF Len(version.nums) >= 3 THEN version.nums[3] ELSE 0,
                version.pre)

\* SemVer.version: the canonical major.minor.patch[-prerelease] string.
versionOf(sv) == Str("", <<sv.major, sv.minor, sv.patch>>, sv.pre)

\* new SemVer(string) of a canonical string.
parse(str) == SemVer(str.nums[1], str.nums[2], str.nums[3], str.pre)

\* Prerelease identifiers compare as ASCII strings; the ones in use, ranked.
preRank(pre) == CASE pre = "alpha" -> 1 [] pre = "beta" -> 2 [] OTHER -> 3

\* SemVer.compare: -1, 0, 1 by major, minor, patch, then the prerelease (a
\* version with a prerelease precedes the same version without).
compareSemVer(a, b) ==
    IF a.major # b.major THEN (IF a.major < b.major THEN -1 ELSE 1)
    ELSE IF a.minor # b.minor THEN (IF a.minor < b.minor THEN -1 ELSE 1)
    ELSE IF a.patch # b.patch THEN (IF a.patch < b.patch THEN -1 ELSE 1)
    ELSE IF a.pre = b.pre THEN 0
    ELSE IF a.pre = "" THEN 1
    ELSE IF b.pre = "" THEN -1
    ELSE IF preRank(a.pre) < preRank(b.pre) THEN -1 ELSE 1

\* semver.compare(a, b), semver.gte(a, b) on version strings.
compare(a, b) == compareSemVer(parse(a), parse(b))
gte(a, b) == compare(a, b) >= 0
\* semver.eq(v, coercedVersion): a string against a SemVer object.
eq(a, sv) == compareSemVer(parse(a), sv) = 0

----------------------------------------------------------------------------
(* Array helpers *)

\* Array.prototype.sort(semver.compare): stable, ascending.
RECURSIVE insertSorted(_, _)
insertSorted(sorted, x) ==
    IF Len(sorted) = 0 THEN <<x>>
    ELSE IF compare(sorted[Len(sorted)], x) <= 0 THEN Append(sorted, x)
    ELSE Append(insertSorted(SubSeq(sorted, 1, Len(sorted) - 1), x), sorted[Len(sorted)])

RECURSIVE sortSeq(_)
sortSeq(str) ==
    IF Len(str) = 0 THEN <<>>
    ELSE insertSorted(sortSeq(SubSeq(str, 1, Len(str) - 1)), str[Len(str)])

\* Array.prototype.findIndex with v => semver.gte(v, range): 0-based, -1 if none.
findIndexGte(arr, range) ==
    IF \E i \in 1..Len(arr) : gte(arr[i], range)
    THEN (CHOOSE i \in 1..Len(arr) :
            gte(arr[i], range) /\ \A j \in 1..(i - 1) : ~gte(arr[j], range)) - 1
    ELSE -1

\* Array.prototype.findIndex with v => semver.eq(v, coercedVersion).
findIndexEq(arr, sv) ==
    IF \E i \in 1..Len(arr) : eq(arr[i], sv)
    THEN (CHOOSE i \in 1..Len(arr) :
            eq(arr[i], sv) /\ \A j \in 1..(i - 1) : ~eq(arr[j], sv)) - 1
    ELSE -1

\* arr[index] for a 0-based index: undefined outside the array.
at(arr, index) ==
    IF index >= 0 /\ index < Len(arr) THEN arr[index + 1] ELSE Undefined

----------------------------------------------------------------------------
(* findPreviousVersion *)

\* String.prototype.toUpperCase on the granularity words in use.
toUpperCase(t) ==
    CASE t = "major" -> "MAJOR"
      [] t = "Minor" -> "MINOR"
      [] t = "patch" -> "PATCH"
      [] t = "invalid" -> "INVALID"
      [] OTHER -> t

\* invalidInput without its granularity test.
invalidInput_NoTypeCheck(versions, versionToFind, type) ==
    \/ versions.kind # "array"
    \/ versionToFind.kind # "string"

\* The guard of line 77.
invalidInput(versions, versionToFind, type) ==
    \/ versions.kind # "array"
    \/ versionToFind.kind # "string"
    \/ type \notin {"MAJOR", "MINOR", "PATCH"}

\* Line 86: versions.map(v => coerce(v).version).filter(Boolean).sort(compare).
\* Reading .version of the null that coerce returns for an uncoercible entry
\* is a TypeError, raised inside map before filter runs.
mapThrows(items) == \E i \in 1..Len(items) : coerce(items[i]) = Null
sortedVersionsOf(items) == sortSeq([i \in 1..Len(items) |-> versionOf(coerce(items[i]))])

\* withPrefix returning the bare match whatever the target looked like.
withPrefix_Bare(prefixV, match) == match

\* prefixV && match ? `v${match}` : match
withPrefix(prefixV, match) ==
    IF prefixV /\ match.kind = "string" THEN Str("v", match.nums, match.pre) ELSE match

\* sortedVersions.find(v => semver.gte(v, range)) || null
findGte(sortedVersions, range) ==
    LET index == findIndexGte(sortedVersions, range)
    IN IF index = -1 THEN Null ELSE at(sortedVersions, index)

\* patchMatch answering with the entry found instead of the one before it.
patchMatch_Found(sortedVersions, coercedVersion) ==
    LET index == findIndexEq(sortedVersions, coercedVersion)
    IN IF index # 0 THEN at(sortedVersions, index) ELSE Null

\* const match = index ? sortedVersions[index - 1] : null
patchMatch(sortedVersions, coercedVersion) ==
    LET index == findIndexEq(sortedVersions, coercedVersion)
    IN IF index # 0 THEN at(sortedVersions, index - 1) ELSE Null

findPreviousVersion(versions, versionToFind, typeArg) ==
    LET type0 == IF typeArg.kind = "undefined" THEN Text("PATCH") ELSE typeArg
    IN IF type0.kind # "string" THEN Throw("TypeError: type.toUpperCase")
       ELSE LET type == toUpperCase(type0.text)
       IN IF invalidInput(versions, versionToFind, type)
          THEN Throw("Invalid input parameters")
          ELSE LET coercedVersion == coerce(versionToFind)
          IN IF coercedVersion = Null THEN Throw("Invalid version string")
             ELSE IF mapThrows(versions.items) THEN Throw("TypeError: coerce(v).version")
             ELSE LET sortedVersions == sortedVersionsOf(versions.items)
                      prefixV == versionToFind.v = "v"
                  IN CASE type = "MAJOR" ->
                            Return(withPrefix(prefixV,
                                findGte(sortedVersions,
                                        Str("", <<coercedVersion.major, 0, 0>>, ""))))
                       [] type = "MINOR" ->
                            Return(withPrefix(prefixV,
                                findGte(sortedVersions,
                                        Str("", <<coercedVersion.major, coercedVersion.minor, 0>>, ""))))
                       [] type = "PATCH" ->
                            Return(withPrefix(prefixV, patchMatch(sortedVersions, coercedVersion)))
                       [] OTHER -> Return(Null)

----------------------------------------------------------------------------
(* Strings and regular expressions, as contains and startsWith use them *)

\* The character of s at 1-based index i.
ch(str, i) == SubSeq(str, i, i)

UpperCase == "ABCDEFGHIJKLMNOPQRSTUVWXYZ"
LowerCase == "abcdefghijklmnopqrstuvwxyz"
Digits == "0123456789"

\* The characters of a string, as a set.
charsOf(str) == {ch(str, i) : i \in 1..Len(str)}
UpperChars == charsOf(UpperCase)
DigitChars == charsOf(Digits)
WordChars == charsOf(LowerCase) \cup UpperChars \cup DigitChars \cup {"_"}

\* 1-based index of character c in string s, 0 when it is not there.
indexIn(str, chr) ==
    IF \E i \in 1..Len(str) : ch(str, i) = chr
    THEN CHOOSE i \in 1..Len(str) : ch(str, i) = chr
    ELSE 0

\* String.prototype.toLowerCase.
RECURSIVE toLowerCaseStr(_)
toLowerCaseStr(str) ==
    IF Len(str) = 0 THEN ""
    ELSE LET chr == ch(str, 1)
         IN (IF chr \in UpperChars THEN ch(LowerCase, indexIn(UpperCase, chr)) ELSE chr)
                \o toLowerCaseStr(SubSeq(str, 2, Len(str)))

\* \w: a letter, a digit or the underscore.
isWordChar(chr) == chr \in WordChars

\* \b at offset p of s (between s[p] and s[p + 1]): exactly one side is \w.
atWordBoundary(str, p) ==
    (p > 0 /\ isWordChar(ch(str, p))) # (p < Len(str) /\ isWordChar(ch(str, p + 1)))

\* Whether character c is in the class whose body is pat[i..j] (single
\* characters, ranges x-y within one of the three alphabets, \d).
RECURSIVE inClass(_, _, _, _)
inClass(pat, i, j, chr) ==
    IF i > j THEN FALSE
    ELSE IF ch(pat, i) = "\\" /\ i < j
         THEN (IF ch(pat, i + 1) = "d" THEN chr \in DigitChars ELSE ch(pat, i + 1) = chr)
              \/ inClass(pat, i + 2, j, chr)
    ELSE IF i + 2 <= j /\ ch(pat, i + 1) = "-"
         THEN (\E al \in {LowerCase, UpperCase, Digits} :
                  /\ indexIn(al, ch(pat, i)) > 0
                  /\ indexIn(al, chr) >= indexIn(al, ch(pat, i))
                  /\ indexIn(al, chr) <= indexIn(al, ch(pat, i + 2)))
              \/ inClass(pat, i + 3, j, chr)
    ELSE ch(pat, i) = chr \/ inClass(pat, i + 1, j, chr)

\* The index of the "]" that closes the class opened at pat[i].
closeOf(pat, i) ==
    CHOOSE j \in (i + 1)..Len(pat) :
        ch(pat, j) = "]" /\ \A k \in (i + 1)..(j - 1) : ch(pat, k) # "]"

\* Whether the one-character atom at pat[i] (a class, an escape, the dot or
\* a literal) accepts the character chr.
accepts(pat, i, chr) ==
    CASE ch(pat, i) = "[" -> inClass(pat, i + 1, closeOf(pat, i) - 1, chr)
      [] ch(pat, i) = "." -> chr # "\n"
      [] ch(pat, i) = "\\" /\ ch(pat, i + 1) = "d" -> chr \in DigitChars
      [] ch(pat, i) = "\\" -> chr = ch(pat, i + 1)
      [] OTHER -> chr = ch(pat, i)

\* The offsets reached from the offsets P by consuming one character that
\* the atom at pat[i] accepts.
step(pat, i, str, P) ==
    {p + 1 : p \in {q \in P : q < Len(str) /\ accepts(pat, i, ch(str, q + 1))}}

(* A pattern is matched as it is read.  Each operator takes the pattern, the
   index in it to read from, the subject string and the set P of offsets in
   the subject at which a match of what was read so far can end; it returns
   the index it stopped at and the offsets at which a match can end then.
   RegExp.prototype.test asks only whether some match exists, so the set of
   all ends decides it. *)
RECURSIVE reAlt(_, _, _, _), reCat(_, _, _, _), reAtom(_, _, _, _), reStar(_, _, _, _)
RECURSIVE grown(_, _, _, _, _), quantified(_, _, _, _, _, _), followed(_, _, _, _, _)
RECURSIVE alternatives(_, _, _, _)

\* A group that matched as r: reading goes on after its ")".
afterGroup(r) == [i |-> r.i + 1, P |-> r.P]

\* One atom: a group, an anchor, \b, or an atom that consumes a character.
reAtom(pat, i, str, P) ==
    LET chr == ch(pat, i)
    IN CASE chr = "(" -> afterGroup(reAlt(pat, i + 1, str, P))
         [] chr = "\\" /\ ch(pat, i + 1) = "b" ->
              [i |-> i + 2, P |-> {p \in P : atWordBoundary(str, p)}]
         [] chr = "^" -> [i |-> i + 1, P |-> {p \in P : p = 0}]
         [] chr = "$" -> [i |-> i + 1, P |-> {p \in P : p = Len(str)}]
         [] OTHER ->
              [i |-> CASE chr = "[" -> closeOf(pat, i) + 1
                       [] chr = "\\" -> i + 2
                       [] OTHER -> i + 1,
               P |-> step(pat, i, str, P)]

\* The offsets P grown by the offsets one more round of the atom reaches.
grown(pat, i, str, P, more) ==
    IF more \subseteq P THEN P ELSE reStar(pat, i, str, P \cup more)

\* The atom at i, any number of times.
reStar(pat, i, str, P) == grown(pat, i, str, P, reAtom(pat, i, str, P).P)

\* The atom at i matched as a and is followed by q: a quantifier or not.
quantified(pat, i, str, P, a, q) ==
    reCat(pat, IF q \in {"?", "*", "+"} THEN a.i + 1 ELSE a.i, str,
          CASE q = "?" -> P \cup a.P
            [] q \in {"*", "+"} -> reStar(pat, i, str, IF q = "*" THEN P ELSE a.P)
            [] OTHER -> a.P)

\* The atom at i matched as a: what follows it decides how often it may match.
followed(pat, i, str, P, a) ==
    quantified(pat, i, str, P, a, IF a.i <= Len(pat) THEN ch(pat, a.i) ELSE "")

\* Atoms in a row, each with its ?, * or +, up to a "|", a ")" or the end.
reCat(pat, i, str, P) ==
    IF i > Len(pat) \/ ch(pat, i) \in {"|", ")"} THEN [i |-> i, P |-> P]
    ELSE followed(pat, i, str, P, reAtom(pat, i, str, P))

\* Two alternatives: a match of either, read up to the end of the second.
either(r, rest) == [i |-> rest.i, P |-> r.P \cup rest.P]

\* The first alternative matched as r.
alternatives(pat, str, P, r) ==
    IF r.i <= Len(pat) /\ ch(pat, r.i) = "|" THEN either(r, reAlt(pat, r.i + 1, str, P))
    ELSE r

\* Alternatives separated by "|".
reAlt(pat, i, str, P) == alternatives(pat, str, P, reCat(pat, i, str, P))

\* (new RegExp(pat)).test(s): a match may start at any offset.
test(pat, str) == reAlt(pat, 1, str, 0..Len(str)).P # {}

----------------------------------------------------------------------------
(* getMessageType *)

\* contains(expr, str) and startsWith(expr, str), lines 111-117.
contains(expr, str) == test("\\b" \o expr \o "\\b", toLowerCaseStr(str))

\* startsWith without the closing \b.
startsWith_NoBoundary(expr, str) == test("^" \o expr, toLowerCaseStr(str))

startsWith(expr, str) == test("^" \o expr \o "\\b", toLowerCaseStr(str))

\* String.prototype.trim, for the blanks a message may carry.
RECURSIVE trim(_)
trim(str) ==
    IF Len(str) > 0 /\ ch(str, 1) = " " THEN trim(SubSeq(str, 2, Len(str)))
    ELSE IF Len(str) > 0 /\ ch(str, Len(str)) = " " THEN trim(SubSeq(str, 1, Len(str) - 1))
    ELSE str

\* semver's FULL pattern: v?major.minor.patch[-prerelease][+build].
NumericIdentifier == "0|[1-9]\\d*"
PrereleaseIdentifier == "(" \o NumericIdentifier \o "|\\d*[a-zA-Z-][a-zA-Z0-9-]*)"
BuildIdentifier == "[a-zA-Z0-9-]+"
FullPattern ==
    "^v?(" \o NumericIdentifier \o ")\\.(" \o NumericIdentifier \o ")\\.("
        \o NumericIdentifier \o ")"
        \o "(-" \o PrereleaseIdentifier \o "(\\." \o PrereleaseIdentifier \o ")*)?"
        \o "(\\+" \o BuildIdentifier \o "(\\." \o BuildIdentifier \o ")*)?$"

\* !!semver.valid(message), line 237: the whole message is a version.
valid(message) == test(FullPattern, trim(message))

\* The results: { type } and { type, subType }.
T(type) == [kind |-> "object", type |-> type]
TS(type, subType) == [kind |-> "object", type |-> type, subType |-> subType]

\* The case expressions: s(e), c(e), sc(e1, e2) and !!semver.valid(message).
s(expr) == [k |-> "s", e1 |-> expr, e2 |-> ""]
c(expr) == [k |-> "c", e1 |-> "", e2 |-> expr]
sc(expr1, expr2) == [k |-> "sc", e1 |-> expr1, e2 |-> expr2]
semverValid == [k |-> "valid", e1 |-> "", e2 |-> ""]

\* The value of a case expression for a message (lines 138-140).
holds(case, message) ==
    CASE case.k = "s" -> startsWith(case.e1, message)
      [] case.k = "c" -> contains(case.e2, message)
      [] case.k = "sc" -> startsWith(case.e1, message) \/ contains(case.e2, message)
      [] case.k = "valid" -> valid(message)

\* One case of a switch: the comment it stands under, its expression and the
\* result returned when it is the one taken.
Rule(bucket, case, result) == [bucket |-> bucket, case |-> case, result |-> result]

\* Lines 142-145.
verbs == "add|correct|create|improve|include|update"
suffix == "s|ed|ing"
e_suffix == "e|es|ed|ing"
y_suffix == "y|ies|ied|ying"

\* The switch of lines 148-168, taken when forceType is "feat".
featCascade ==
    << Rule("Feat (Add)", s("add(" \o suffix \o ")?"), TS("feat", "add")),
       Rule("Feat (Add)", s("allow(" \o suffix \o ")?"), TS("feat", "add")),
       Rule("Feat (Add)", s("creat(" \o e_suffix \o ")?"), TS("feat", "add")),
       Rule("Feat (Add)", s("enabl(" \o e_suffix \o ")?"), TS("feat", "add")),
       Rule("Feat (Add)", s("implement(" \o suffix \o ")?"), TS("feat", "add")),
       Rule("Feat (Add)", s("includ(" \o e_suffix \o ")?"), TS("feat", "add")),
       Rule("Feat (Add)", s("incorporat(" \o e_suffix \o ")?"), TS("feat", "add")),
       Rule("Feat (Add)", s("install(" \o suffix \o ")?"), TS("feat", "add")),
       Rule("Feat (Add)", s("introduc(" \o e_suffix \o ")?"), TS("feat", "add")),
       Rule("Feat (Add)", s("support(" \o suffix \o ")?"), TS("feat", "add")),
       Rule("Feat (Remove)", s("delet(" \o e_suffix \o ")?"), TS("feat", "remove")),
       Rule("Feat (Remove)", s("deprecat(" \o e_suffix \o ")?"), TS("feat", "remove")),
       Rule("Feat (Remove)", s("disabl(" \o e_suffix \o ")?"), TS("feat", "remove")),
       Rule("Feat (Remove)", s("remov(" \o e_suffix \o ")?"), TS("feat", "remove")),
       Rule("Feat (Remove)", s("uninstall(" \o suffix \o ")?"), TS("feat", "remove")) >>

\* The switch of lines 173-332.
cascade ==
    << Rule("Merge", s("merge"), T("merge")),
       Rule("Docs", c("documentation"), T("docs")),
       Rule("Docs", c("(" \o verbs \o ").*docs?"), T("docs")),
       Rule("Docs", c("read ?me"), T("docs")),
       Rule("Docs", c("docblocks?"), T("docs")),
       Rule("Docs", c("(" \o verbs \o ").*comments?"), T("docs")),
       Rule("Docs", c("license"), T("docs")),
       Rule("Docs", c("change.?log"), T("docs")),
       Rule("CI", c("jenkins"), T("ci")),
       Rule("CI", c("travis"), T("ci")),
       Rule("CI", c("teamcity"), T("ci")),
       Rule("Fix", c("bug fix"), T("fix")),
       Rule("Fix", s("revert(" \o suffix \o ")?"), T("fix")),
       Rule("Fix", s("typo"), T("fix")),
       Rule("Fix", s("prevent"), T("fix")),
       Rule("Chore", c("version bumps?"), T("chore")),
       Rule("Chore", s("bump(" \o suffix \o ")?"), T("chore")),
       Rule("Chore", s("ignor(" \o e_suffix \o ")?"), T("chore")),
       Rule("Chore", s("cleanup(" \o suffix \o ")?"), T("chore")),
       Rule("Chore", s("renam(" \o e_suffix \o ")?"), T("chore")),
       Rule("Chore", s("upgrad(" \o e_suffix \o ")?"), T("chore")),
       Rule("Chore", s("init.*commit"), T("chore")),
       Rule("Chore", s("init"), T("chore")),
       Rule("Perf", s("cach(" \o e_suffix \o ")?"), T("perf")),
       Rule("Perf", s("optimize"), T("perf")),
       Rule("Test", sc("test(" \o suffix \o ")?", "test cases?"), T("test")),
       Rule("Test", c("(fix|" \o verbs \o "|run|remove).*tests?"), T("test")),
       Rule("Test", c("unit tests?"), T("test")),
       Rule("Test", c("tests? pass(ed)?"), T("test")),
       Rule("Test", c("php.?unit"), T("test")),
       Rule("Test", c("behat"), T("test")),
       Rule("Test", c("pest"), T("test")),
       Rule("Test", c("jest"), T("test")),
       Rule("Test", c("mocha"), T("test")),
       Rule("Test", c("jasmine"), T("test")),
       Rule("Test", c("karma"), T("test")),
       Rule("Test", c("vitest"), T("test")),
       Rule("Style", c("prettier"), T("style")),
       Rule("Style", c("eslint"), T("style")),
       Rule("Style", c("jshint"), T("style")),
       Rule("Style", c("jslint"), T("style")),
       Rule("Style", c("tslint"), T("style")),
       Rule("Style", c("beautifier"), T("style")),
       Rule("Style", c("stylelint"), T("style")),
       Rule("Style", c("linting"), T("style")),
       Rule("Style", s("lint"), T("style")),
       Rule("Build", semverValid, T("build")),
       Rule("Build", s("semver"), T("build")),
       Rule("Build", sc("build(" \o suffix \o ")?", "dist.*(build|folder|dir|directory|files?)"), T("build")),
       Rule("Build", c("build.*(status|steps?)"), T("build")),
       Rule("Build", c("(update).*build"), T("build")),
       Rule("Build", c("distributions?"), T("build")),
       Rule("Build", c("(" \o verbs \o ").*dist"), T("build")),
       Rule("Build", c("peers?"), T("build")),
       Rule("Build", c("peer.?dependency"), T("build")),
       Rule("Build", c("package.?(lock|json)"), T("build")),
       Rule("Build", c("composer.?(lock|json)"), T("build")),
       Rule("Build", c("lock.?file"), T("build")),
       Rule("Build", s("version"), T("build")),
       Rule("Build", c("bower"), T("build")),
       Rule("Build", c("brotli"), T("build")),
       Rule("Build", c("browserify"), T("build")),
       Rule("Build", c("esbuild"), T("build")),
       Rule("Build", c("grunt"), T("build")),
       Rule("Build", c("gulp"), T("build")),
       Rule("Build", c("maven"), T("build")),
       Rule("Build", c("node( |.)?js"), T("build")),
       Rule("Build", c("node versions?"), T("build")),
       Rule("Build", c("npm"), T("build")),
       Rule("Build", c("pnpm"), T("build")),
       Rule("Build", c("parcel"), T("build")),
       Rule("Build", c("rollup"), T("build")),
       Rule("Build", c("snowpack"), T("build")),
       Rule("Build", c("tsup"), T("build")),
       Rule("Build", c("vite"), T("build")),
       Rule("Build", c("webpack"), T("build")),
       Rule("Build", c("yarn"), T("build")),
       Rule("Refactor", s("convert(" \o suffix \o ")?"), T("refactor")),
       Rule("Refactor", s("improv(" \o e_suffix \o ")?"), T("refactor")),
       Rule("Refactor", s("mov(" \o e_suffix \o ")?"), T("refactor")),
       Rule("Refactor", s("refactor(" \o suffix \o ")?"), T("refactor")),
       Rule("Refactor", s("replac(" \o e_suffix \o ")?"), T("refactor")),
       Rule("Refactor", s("simplif(" \o y_suffix \o ")?"), T("refactor")),
       Rule("Refactor", s("switch(" \o suffix \o ")?"), T("refactor")),
       Rule("Refactor", s("tidy"), T("refactor")),
       Rule("Fix 2", sc("fix", "fix(" \o e_suffix \o ")"), T("fix")),
       Rule("Fix 2", s("correct(" \o suffix \o "|ion|ions)?"), T("fix")),
       Rule("Fix 2", c("console.?log"), T("fix")),
       Rule("Chore 2", s("updat(" \o e_suffix \o ")?"), T("chore")),
       Rule("Feat (Add)", s("add(" \o suffix \o ")?"), TS("feat", "add")),
       Rule("Feat (Add)", s("allow(" \o suffix \o ")?"), TS("feat", "add")),
       Rule("Feat (Add)", s("creat(" \o e_suffix \o ")?"), TS("feat", "add")),
       Rule("Feat (Add)", s("enabl(" \o e_suffix \o ")?"), TS("feat", "add")),
       Rule("Feat (Add)", s("implement(" \o suffix \o ")?"), TS("feat", "add")),
       Rule("Feat (Add)", s("includ(" \o e_suffix \o ")?"), TS("feat", "add")),
       Rule("Feat (Add)", s("incorporat(" \o e_suffix \o ")?"), TS("feat", "add")),
       Rule("Feat (Add)", s("install(" \o suffix \o ")?"), TS("feat", "add")),
       Rule("Feat (Add)", s("introduc(" \o e_suffix \o ")?"), TS("feat", "add")),
       Rule("Feat (Add)", s("support(" \o suffix \o ")?"), TS("feat", "add")),
       Rule("Feat (Change)", s("adjust(" \o suffix \o ")?"), TS("feat", "change")),
       Rule("Feat (Change)", s("append(" \o suffix \o ")?"), TS("feat", "change")),
       Rule("Feat (Change)", s("chang(" \o e_suffix \o ")?"), TS("feat", "change")),
       Rule("Feat (Change)", s("extend(" \o suffix \o ")?"), TS("feat", "change")),
       Rule("Feat (Change)", s("hid(" \o e_suffix \o ")?"), TS("feat", "change")),
       Rule("Feat (Change)", s("mak(" \o e_suffix \o ")?"), TS("feat", "change")),
       Rule("Feat (Change)", s("modif(" \o y_suffix \o ")?"), TS("feat", "change")),
       Rule("Feat (Change)", s("tweak(" \o suffix \o ")?"), TS("feat", "change")),
       Rule("Feat (Remove)", s("delet(" \o e_suffix \o ")?"), TS("feat", "remove")),
       Rule("Feat (Remove)", s("deprecat(" \o e_suffix \o ")?"), TS("feat", "remove")),
       Rule("Feat (Remove)", s("disabl(" \o e_suffix \o ")?"), TS("feat", "remove")),
       Rule("Feat (Remove)", s("remov(" \o e_suffix \o ")?"), TS("feat", "remove")),
       Rule("Feat (Remove)", s("uninstall(" \o suffix \o ")?"), TS("feat", "remove")),
       Rule("Build 2", c("build"), T("build")),
       Rule("Chore 3", c("versions?"), T("chore")),
       Rule("Chore 3", c("upgrade"), T("chore")),
       Rule("Test 2", c("tests?"), T("test")),
       Rule("Fix 3", c("fix"), T("fix")),
       Rule("Refactor 2", c("clean"), T("refactor")) >>

\* switch (true) taking the last case that holds.
switchTrue_Last(rules, message) ==
    IF \E i \in 1..Len(rules) : holds(rules[i].case, message)
    THEN CHOOSE i \in 1..Len(rules) :
            /\ holds(rules[i].case, message)
            /\ \A j \in (i + 1)..Len(rules) : ~holds(rules[j].case, message)
    ELSE 0

\* switch (true): the case expressions are evaluated from the top and the
\* first that holds is taken; its index, 0 when none holds.
switchTrue(rules, message) ==
    LET i == CHOOSE k \in 1..(Len(rules) + 1) :
                /\ k <= Len(rules) => holds(rules[k].case, message)
                /\ \A j \in 1..(k - 1) : ~holds(rules[j].case, message)
    IN IF i > Len(rules) THEN 0 ELSE i

\* A property an options object does not have.
Absent == [kind |-> "absent"]
False == [kind |-> "false"]
Options(defaultType, forceType) ==
    [kind |-> "object", defaultType |-> defaultType, forceType |-> forceType]

\* Line 135: { ...{ defaultType: false, forceType: false }, ...options }; an
\* omitted argument is {}, and spreading null or undefined adds nothing.
mergeOptions(options) ==
    IF options.kind # "object" THEN Options(False, False)
    ELSE Options(IF options.defaultType = Absent THEN False ELSE options.defaultType,
                 IF options.forceType = Absent THEN False ELSE options.forceType)

\* JavaScript truthiness of the values in use.
truthy(value) == value.kind \notin {"false", "null", "undefined"} /\ value # Text("")

\* The fallback that forgets the configured default.
fallback_Other(defaultType) == T("other")

\* Line 334: defaultType || { type: 'other' }
fallback(defaultType) == IF truthy(defaultType) THEN defaultType ELSE T("other")

\* The forced-feat result that consults the full cascade first.
forcedFeat_ViaCascade(message) ==
    LET i == switchTrue(cascade, message)
    IN IF i # 0 /\ cascade[i].result.type = "feat" THEN cascade[i].result
       ELSE TS("feat", "change")

\* Lines 147-171.
forcedFeat(message) ==
    LET i == switchTrue(featCascade, message)
    IN IF i # 0 THEN featCascade[i].result ELSE TS("feat", "change")

getMessageType(message, optionsArg) ==
    LET options == mergeOptions(optionsArg)
    IN IF options.forceType = Text("feat") THEN Return(forcedFeat(message))
       ELSE LET i == switchTrue(cascade, message)
            IN IF i # 0 THEN Return(cascade[i].result)
               ELSE Return(fallback(options.defaultType))

----------------------------------------------------------------------------
(* getNotices *)

\* A RegExp object with the given source; a note of a commit.
RegExp(source) == [kind |-> "regexp", source |-> source]
Note(title, text) == [title |-> title, text |-> text]

\* check.startsWith('/') && check.endsWith('/')
slashed(t) == Len(t) > 0 /\ ch(t, 1) = "/" /\ ch(t, Len(t)) = "/"

\* Lines 458-460: a string written between slashes is handed whole, slashes
\* included, to new RegExp, and replaces check for the notes that follow.
compiled(check) == IF slashed(check.text) THEN RegExp(check.text) ELSE check

\* Line 461: check instanceof RegExp ? check.test(note.title) : note.title === check
noteMatches(check, title) ==
    IF check.kind = "regexp" THEN test(check.source, title) ELSE title = check.text

RECURSIVE filterNotes(_, _, _, _), keepNote(_, _, _, _)

\* The filter callback on note k with the check as the notes before it left
\* it, then the rest of the notes.
keepNote(notes, k, check, kept) ==
    filterNotes(notes, k + 1, check,
                IF noteMatches(check, notes[k].title) THEN Append(kept, notes[k].text)
                ELSE kept)

\* commit.notes.filter(...).map(note => note.text) from note k on.  Only a
\* string has startsWith: on any other check the callback throws.
filterNotes(notes, k, check, kept) ==
    IF k > Len(notes) THEN Return(Arr(kept))
    ELSE IF check.kind # "string" THEN Throw("TypeError: check.startsWith is not a function")
    ELSE keepNote(notes, k, compiled(check), kept)

\* Lines 464-468: the notices when there are some, else the commit's breaking
\* text when the label is the breaking label.
noticesOr(filtered, commit, label, breakingLabel) ==
    IF filtered.kind = "throw" \/ Len(filtered.value.items) > 0 THEN filtered
    ELSE IF label = breakingLabel /\ commit.breaking.kind = "string"
         THEN Return(Arr(<<commit.breaking.text>>))
    ELSE Return(Arr(<<>>))

getNotices(commit, label, checkArg, breakingLabel) ==
    noticesOr(IF commit.notes.kind = "array"
              THEN filterNotes(commit.notes.items, 1,
                               IF checkArg.kind \in {"null", "undefined"} THEN Text(label)
                               ELSE checkArg,
                               <<>>)
              ELSE Return(Arr(<<>>)),
              commit, label, breakingLabel)

----------------------------------------------------------------------------
(* The header parser: a CommitParser configured as in lines 1063-1070 *)

\* A parsed commit.  orig and raw are added by getCommits, subType by
\* parseCommitMessage; a record fresh from the parser has none of them.
Commit(type, subject, header, merge, revert) ==
    [kind |-> "object", type |-> type, subject |-> subject, header |-> header,
     merge |-> merge, revert |-> revert,
     orig |-> Undefined, raw |-> Undefined, subType |-> Undefined]

\* mergePattern (line 1067) on the lower-cased text (its i flag), and the
\* parser's default revertPattern.
MergePattern == "^merge +(branch +)?.+ +(in)?to +(branch +)?.+$"
RevertPattern == "^Revert \".*\" *This reverts commit [a-z0-9]*\\."

\* The number of \w characters the text starts with.
wordPrefixLen(text) ==
    CHOOSE n \in 0..Len(text) :
        /\ \A i \in 1..n : isWordChar(ch(text, i))
        /\ n = Len(text) \/ ~isWordChar(ch(text, n + 1))

\* A captured group: null when it is empty.
captured(str) == IF str = "" THEN Null ELSE Text(str)

\* headerPattern (line 1065) without scope and "!": the n word characters of
\* the type, ": " and the subject.
parseHeader(text, n) ==
    IF n + 2 <= Len(text) /\ ch(text, n + 1) = ":" /\ ch(text, n + 2) = " "
    THEN Commit(captured(SubSeq(text, 1, n)), captured(SubSeq(text, n + 3, Len(text))),
                Text(text), Null, Null)
    ELSE Commit(Null, Null, Text(text), Null, Null)

\* The revert field of a commit whose text is a revert.
withRevert(commit, text) ==
    IF test(RevertPattern, text) THEN [commit EXCEPT !.revert = [kind |-> "object"]]
    ELSE commit

\* parser.parse(text): throws on a text that is empty once trimmed.
parserParse(text) ==
    IF trim(text) = "" THEN Throw("TypeError: Expected a raw commit")
    ELSE IF test(MergePattern, toLowerCaseStr(text))
         THEN Return(Commit(Null, Null, Null, Text(text), Null))
    ELSE Return(withRevert(parseHeader(text, wordPrefixLen(text)), text))

----------------------------------------------------------------------------
(* parseCommitMessage *)

\* What a call did besides returning: the texts it handed to the parser and
\* the messages it handed to the classifier, in order.
Parsed(text) == [op |-> "parser.parse", text |-> text]
Classified(message) == [op |-> "getMessageType", message |-> message]
Outcome(result, done) == [ret |-> result, effects |-> done]

\* { ...{ defaultType: false, validTypes: [] }, ...options } (line 352).
ParseOptions(defaultType, validTypesOpt) ==
    [kind |-> "object", defaultType |-> defaultType, validTypes |-> validTypesOpt]

\* getMessageType as parseCommitMessage calls it: a message that is not a
\* string fails in str.toLowerCase() (lines 112, 116).
classify(message, defaultType, forceType) ==
    IF message.kind # "string" THEN Throw("TypeError: str.toLowerCase")
    ELSE getMessageType(message.text, Options(defaultType, forceType))

\* `${x}` of a value.
templated(value) ==
    CASE value.kind = "string" -> value.text
      [] value.kind = "null" -> "null"
      [] OTHER -> "undefined"

\* Lines 373-375: the reparsed record with the resolved type and subtype.
reparsed(parsed, type, subType, done) ==
    IF parsed.kind = "throw" THEN Outcome(parsed, done)
    ELSE Outcome(Return([parsed.value EXCEPT !.type = type, !.subType = subType]), done)

\* Lines 369-375 once type and subType are resolved.
finished(commit, options, type, subType, done) ==
    IF \E i \in 1..Len(options.validTypes) : Text(options.validTypes[i]) = type
    THEN Outcome(Return([commit EXCEPT !.type = type, !.subType = subType]), done)
    ELSE reparsed(parserParse(templated(type) \o ": " \o templated(commit.orig)), type, subType,
                  Append(done, Parsed(templated(type) \o ": " \o templated(commit.orig))))

\* Line 367: type === 'feat' ? (data.subType || 'change') : false
subTypeOf(type, data) ==
    IF type # Text("feat") THEN False
    ELSE IF "subType" \in DOMAIN data THEN Text(data.subType)
    ELSE Text("change")

\* typeOr taking the classifier's type whatever the record declared.
typeOr_Classifier(type, data) == Text(data.type)

\* Line 366: type ??= data.type
typeOr(type, data) == IF type.kind \in {"null", "undefined"} THEN Text(data.type) ELSE type

\* Lines 366-375 with what getMessageType gave.
resolved(commit, options, data, done) ==
    IF data.kind = "throw" THEN Outcome(data, done)
    ELSE finished(commit, options, typeOr(commit.type, data.value),
                  subTypeOf(typeOr(commit.type, data.value), data.value), done)

\* commit.subject ?? commit.header
subjectOrHeader(commit) ==
    IF commit.subject.kind \in {"null", "undefined"} THEN commit.header ELSE commit.subject

\* parseCommitMessage looking at revert before merge.
parseCommitMessage_RevertFirst(commit, options) ==
    IF truthy(commit.revert) THEN Outcome(Return([commit EXCEPT !.type = Text("revert")]), <<>>)
    ELSE IF truthy(commit.merge)
         THEN Outcome(Return([commit EXCEPT !.type = Text("merge")]), <<>>)
    ELSE resolved(commit, options,
                  classify(subjectOrHeader(commit), options.defaultType, commit.type),
                  <<Classified(subjectOrHeader(commit))>>)

\* Lines 351-376.
parseCommitMessage(commit, options) ==
    IF truthy(commit.merge) THEN Outcome(Return([commit EXCEPT !.type = Text("merge")]), <<>>)
    ELSE IF truthy(commit.revert)
         THEN Outcome(Return([commit EXCEPT !.type = Text("revert")]), <<>>)
    ELSE resolved(commit, options,
                  classify(subjectOrHeader(commit), options.defaultType, commit.type),
                  <<Classified(subjectOrHeader(commit))>>)

\* Line 52.
validTypes == <<"feat", "fix", "chore", "perf", "style", "refactor", "ci", "build", "test", "docs">>

\* Line 352: the options of parseCommitMessage with their defaults.
mergeParseOptions(options) ==
    IF options.kind # "object" THEN ParseOptions(False, <<>>) ELSE options

----------------------------------------------------------------------------
(* getCommits *)

\* orig.replace(': ', ' '): the first ": " becomes " ".
replaceColon(text) ==
    IF \E k \in 1..(Len(text) - 1) : ch(text, k) = ":" /\ ch(text, k + 1) = " "
    THEN LET k == CHOOSE i \in 1..(Len(text) - 1) :
                    /\ ch(text, i) = ":" /\ ch(text, i + 1) = " "
                    /\ \A j \in 1..(i - 1) : ~(ch(text, j) = ":" /\ ch(text, j + 1) = " ")
         IN SubSeq(text, 1, k - 1) \o " " \o SubSeq(text, k + 2, Len(text))
    ELSE text

\* An object with string keys is kept as its entries in key order, which for
\* keys that are not array indices is the order in which they were added.
Entry(key, value) == [key |-> key, value |-> value]

\* The key that leaves the subtype out.
keyOf_TypeOnly(commit) == commit.type.text

\* Line 428: commit.subType ? (commit.type + '_' + commit.subType) : commit.type
keyOf(commit) ==
    IF truthy(commit.subType) THEN commit.type.text \o "_" \o commit.subType.text
    ELSE commit.type.text

\* Lines 429-430: groups[key] ??= []; groups[key].push(commit)
pushGroup(groups, key, commit) ==
    IF \E i \in 1..Len(groups) : groups[i].key = key
    THEN [i \in 1..Len(groups) |->
            IF groups[i].key = key THEN Entry(key, Append(groups[i].value, commit))
            ELSE groups[i]]
    ELSE Append(groups, Entry(key, <<commit>>))

\* Array.prototype.indexOf: 0-based, -1 when the array does not hold it.
indexOf(arr, x) ==
    IF \E i \in 1..Len(arr) : arr[i] = x
    THEN (CHOOSE i \in 1..Len(arr) : arr[i] = x /\ \A j \in 1..(i - 1) : arr[j] # x) - 1
    ELSE -1

\* The entries whose key has index r or more in types, by index; the sort is
\* stable, so entries of one index keep their order.
RECURSIVE fromRank(_, _, _)
fromRank(entries, types, r) ==
    IF r >= Len(types) THEN <<>>
    ELSE SelectSeq(entries, LAMBDA e : indexOf(types, e.key) = r)
            \o fromRank(entries, types, r + 1)

\* Lines 434-436: the entries sorted by indexOf(a) ?? Infinity.  indexOf is
\* never null or undefined, so a key that is not listed has rank -1.
sortGroups(entries, types) == fromRank(entries, types, -1)

\* { commits, groups }
Commits(commits, groups) == [kind |-> "object", commits |-> commits, groups |-> groups]

\* What the loop has gathered: commits, groups and the calls made so far.
Gathered(commits, groups, done) == [commits |-> commits, groups |-> groups, effects |-> done]
did(acc, effect) == [acc EXCEPT !.effects = Append(@, effect)]
Logged(error) == [op |-> "console.log", error |-> error]

\* The catch block that throws away what was gathered.
caught_Nothing(acc, error) == Outcome(Return(Commits(<<>>, <<>>)), Append(acc.effects, Logged(error)))

\* Lines 438-442: catch (e) { console.log(e) }, then return { commits, groups }.
caught(acc, error) ==
    Outcome(Return(Commits(acc.commits, acc.groups)), Append(acc.effects, Logged(error)))

\* Line 410: the options of getCommits with their defaults.
mergeCommitsOptions(options) ==
    IF options.kind # "object" THEN ParseOptions(False, validTypes) ELSE options

RECURSIVE getCommitsFrom(_, _, _, _), parsedFirst(_, _, _, _, _), parsedAgain(_, _, _, _, _, _)
RECURSIVE normalized(_, _, _, _, _), pushed(_, _, _, _, _, _), gathered(_, _, _, _, _)

\* Lines 424-430 from parseCommitMessage's return on: orig and raw are put
\* back, the commit is pushed and filed under its key.
gathered(messages, k, options, acc, commit) ==
    getCommitsFrom(messages, k + 1, options,
                   Gathered(Append(acc.commits, commit),
                            pushGroup(acc.groups, keyOf(commit), commit), acc.effects))

pushed(messages, k, options, acc, commit, out) ==
    IF out.ret.kind = "throw"
    THEN caught([acc EXCEPT !.effects = @ \o out.effects], out.ret.error)
    ELSE gathered(messages, k, options, [acc EXCEPT !.effects = @ \o out.effects],
                  [out.ret.value EXCEPT !.orig = commit.orig, !.raw = commit.raw])

\* Line 424: parseCommitMessage with the module's validTypes, whatever
\* options.validTypes is.
normalized(messages, k, options, acc, commit) ==
    pushed(messages, k, options, acc, commit,
           parseCommitMessage(commit, ParseOptions(options.defaultType, validTypes)))

\* Lines 419-420: the message parsed again without its ": ", its type dropped.
parsedAgain(messages, k, options, acc, orig, again) ==
    IF again.kind = "throw" THEN caught(acc, again.error)
    ELSE normalized(messages, k, options, acc,
                    [again.value EXCEPT
                        !.type = Undefined, !.orig = Text(orig), !.raw = messages[k]])

\* Lines 415-422 with the first parse of the message.
parsedFirst(messages, k, options, acc, first) ==
    IF first.kind = "throw" THEN caught(acc, first.error)
    ELSE IF truthy(first.value.type)
            /\ indexOf(options.validTypes, first.value.type.text) = -1
         THEN parsedAgain(messages, k, options,
                          did(acc, Parsed(replaceColon(messages[k].text))),
                          replaceColon(messages[k].text),
                          parserParse(replaceColon(messages[k].text)))
    ELSE normalized(messages, k, options, acc,
                    [first.value EXCEPT !.orig = messages[k], !.raw = messages[k]])

\* The loop of lines 411-432 from message k on, then the sort.
getCommitsFrom(messages, k, options, acc) ==
    IF k > Len(messages)
    THEN Outcome(Return(Commits(acc.commits, sortGroups(acc.groups, options.validTypes))),
                 acc.effects)
    ELSE IF ~truthy(messages[k]) THEN getCommitsFrom(messages, k + 1, options, acc)
    ELSE parsedFirst(messages, k, options, did(acc, Parsed(messages[k].text)),
                     parserParse(messages[k].text))

getCommits(messages, options) ==
    getCommitsFrom(messages, 1, mergeCommitsOptions(options), Gathered(<<>>, <<>>, <<>>))


----------------------------------------------------------------------------
(* groupReleases (lines 720-747) *)

\* An object is the sequence of its entries in the order Object.entries
\* gives them.  A release as groupReleases reads it.
Release(name, date, messages, commits) ==
    [name |-> name, date |-> date, messages |-> messages, commits |-> commits]
Dict(entries) == [kind |-> "object", entries |-> entries]

\* Line 731: the bucket a group starts as.  A group's name is the sequence of
\* the numbers that parts.join('.') puts dots between.
Bucket(group) == [tag |-> group, name |-> <<>>, date |-> <<>>, messages |-> <<>>, commits |-> <<>>]

\* Line 724: semver.coerce(version, { includePrerelease: false }) keeps no
\* prerelease.
coerceTag_Zero(version) ==
    IF coerce(version) = Null THEN SemVer(0, 0, 0, "") ELSE [coerce(version) EXCEPT !.pre = ""]

coerceTag(version) ==
    IF coerce(version) = Null THEN Null ELSE [coerce(version) EXCEPT !.pre = ""]

\* Lines 726-730: the patch is popped, and the minor too when groupBy is
\* "major" in any case.
groupOf(sv, groupBy) ==
    IF toLowerCaseStr(groupBy.text) = "major" THEN <<sv.major>> ELSE <<sv.major, sv.minor>>

\* A property name that is a canonical array index ("1", "2"): an object
\* lists these first, in ascending numeric order, and the other string keys
\* after them in the order they were created.
integerLike(group) == Len(group) = 1

hasKey(obj, key) == \E i \in 1..Len(obj) : obj[i].key = key
valueAt(obj, key) == obj[CHOOSE i \in 1..Len(obj) : obj[i].key = key].value

\* Where a new property lands in the iteration order of the object.
landing(obj, group) ==
    IF integerLike(group)
    THEN Cardinality({i \in 1..Len(obj) : integerLike(obj[i].key) /\ obj[i].key[1] < group[1]})
    ELSE Len(obj)

inserted(obj, pos, entry) == SubSeq(obj, 1, pos) \o <<entry>> \o SubSeq(obj, pos + 1, Len(obj))

\* groups[group] = bucket.
putBucket(groups, group, bucket) ==
    IF hasKey(groups, group)
    THEN [i \in 1..Len(groups) |-> IF groups[i].key = group THEN Entry(group, bucket) ELSE groups[i]]
    ELSE inserted(groups, landing(groups, group), Entry(group, bucket))

\* Line 731: groups[group] ??= { tag: group, ... }.
bucketOr(groups, group) ==
    IF hasKey(groups, group) THEN valueAt(groups, group) ELSE Bucket(group)

\* Lines 736-737: commits[type] ??= [], then push(...commits).
pushCommits(dict, type, commits) ==
    IF hasKey(dict, type)
    THEN [i \in 1..Len(dict) |-> IF dict[i].key = type THEN Entry(type, dict[i].value \o commits) ELSE dict[i]]
    ELSE Append(dict, Entry(type, commits))

\* Lines 735-738: the loop over Object.entries(release.commits ?? {}).
RECURSIVE pushEntries(_, _, _)
pushEntries(dict, entries, k) ==
    IF k > Len(entries) THEN dict
    ELSE pushEntries(pushCommits(dict, entries[k].key, entries[k].value), entries, k + 1)

entriesOf(commits) == IF commits.kind \in {"null", "undefined"} THEN <<>> ELSE commits.entries

\* A bucket that keeps only the messages of the release filed last.
filed_Overwrite(bucket, release) ==
    [bucket EXCEPT
        !.name = IF truthy(release.name) THEN Append(@, release.name.text) ELSE @,
        !.date = IF truthy(release.date) THEN Append(@, release.date.text) ELSE @,
        !.messages = IF truthy(release.messages) THEN release.messages.items ELSE @,
        !.commits = pushEntries(@, entriesOf(release.commits), 1)]

\* Lines 732-738: what one release adds to its bucket.
filed(bucket, release) ==
    [bucket EXCEPT
        !.name = IF truthy(release.name) THEN Append(@, release.name.text) ELSE @,
        !.date = IF truthy(release.date) THEN Append(@, release.date.text) ELSE @,
        !.messages = IF truthy(release.messages) THEN @ \o release.messages.items ELSE @,
        !.commits = pushEntries(@, entriesOf(release.commits), 1)]

\* Array.prototype.join(', ').
RECURSIVE joinComma(_)
joinComma(words) ==
    IF Len(words) = 0 THEN ""
    ELSE IF Len(words) = 1 THEN words[1]
    ELSE words[1] \o ", " \o joinComma(Tail(words))

orNull(text) == IF text = "" THEN Null ELSE Text(text)

\* Lines 741-744: name and date become strings; an empty name becomes null.
joined(groups) ==
    [i \in 1..Len(groups) |->
        Entry(groups[i].key,
              [groups[i].value EXCEPT !.name = orNull(joinComma(@)), !.date = Text(joinComma(@))])]

placed(groups, group, release) == putBucket(groups, group, filed(bucketOr(groups, group), release))

\* Lines 723-739, from the k-th entry on.
RECURSIVE groupFrom(_, _, _, _)
\* Lines 725-738 for a tag that coerced to sv.
grouped(releases, k, groupBy, groups, sv) ==
    IF sv = Null THEN groupFrom(releases, k + 1, groupBy, groups)
    ELSE IF groupBy.kind # "string" THEN Throw("TypeError: groupBy.toLowerCase")
    ELSE groupFrom(releases, k + 1, groupBy,
                   placed(groups, groupOf(sv, groupBy), releases[k].value))

groupFrom(releases, k, groupBy, groups) ==
    IF k > Len(releases) THEN Return(Dict(joined(groups)))
    ELSE grouped(releases, k, groupBy, groups, coerceTag(releases[k].key))

\* Line 720: groupBy = 'minor' when the argument is left out.
groupReleases(releases, groupBy) ==
    groupFrom(releases, 1, IF groupBy = Undefined THEN Text("minor") ELSE groupBy, <<>>)

----------------------------------------------------------------------------
(* buildChangelog (lines 494-581) *)

True == [kind |-> "true"]

\* a ?? b
orElse(value, default) == IF value.kind \in {"null", "undefined"} THEN default ELSE value

\* Lines 55-60: escapeHTML.  The ampersand is replaced first and no later
\* replacement looks at what an earlier one wrote, so each character is
\* replaced on its own.
escapeChar(chr) ==
    CASE chr = "&" -> "&amp;"
      [] chr = "<" -> "&lt;"
      [] chr = ">" -> "&gt;"
      [] chr = "\"" -> "&quot;"
      [] chr = "'" -> "&#39;"
      [] OTHER -> chr

RECURSIVE escapeHTML(_)
escapeHTML(str) ==
    IF Len(str) = 0 THEN "" ELSE escapeChar(ch(str, 1)) \o escapeHTML(SubSeq(str, 2, Len(str)))

\* A number in a template literal.
RECURSIVE decimal(_)
decimal(n) ==
    IF n < 10 THEN ch(Digits, n + 1) ELSE decimal(n \div 10) \o ch(Digits, (n % 10) + 1)

RECURSIVE dotted(_)
dotted(nums) ==
    IF Len(nums) = 1 THEN decimal(nums[1]) ELSE decimal(nums[1]) \o "." \o dotted(Tail(nums))

\* The text of a tag; the tag that holds no version reads "abc".
versionText(version) ==
    IF Len(version.nums) = 0 THEN "abc"
    ELSE version.v \o dotted(version.nums)
            \o (IF version.pre = "" THEN "" ELSE "-" \o version.pre)

\* `${semver.coerce(version, { includePrerelease: true })}`
shown(sv) == IF sv = Null THEN "null" ELSE versionText(versionOf(sv))

\* The options of buildChangelog and of its notices.
Notice(keys, all, inFooter) == [kind |-> "object", keys |-> keys, all |-> all, inFooter |-> inFooter]
BuildOptions(coerceOpt, onlyFirst, onlyBody, types, notice) ==
    [kind |-> "object", coerce |-> coerceOpt, onlyFirst |-> onlyFirst, onlyBody |-> onlyBody,
     types |-> types, notice |-> notice]

\* Line 499 and line 501.
DefaultTypes ==
    Dict(<<Entry("feat_add", "Added"), Entry("feat_change", "Changed"),
           Entry("feat_remove", "Removed"), Entry("fix", "Fixed")>>)
DefaultKeys == Dict(<<Entry("BREAKING CHANGES", RegExp("^BREAKING[ -]CHANGE$"))>>)

\* Lines 500-503.
noticeDefaults(notice) ==
    Notice(orElse(notice.keys, DefaultKeys), orElse(notice.all, False), orElse(notice.inFooter, True))

\* Lines 495-503.
withDefaults(options) ==
    IF options.kind \in {"null", "undefined"}
    THEN BuildOptions(True, False, False, DefaultTypes, Notice(DefaultKeys, False, True))
    ELSE BuildOptions(orElse(options.coerce, True), orElse(options.onlyFirst, False),
                      orElse(options.onlyBody, False), orElse(options.types, DefaultTypes),
                      noticeDefaults(orElse(options.notice, Notice(Undefined, Undefined, Undefined))))

\* A release and a commit as buildChangelog reads them.
Block(date, header, footer, commits) ==
    [date |-> date, header |-> header, footer |-> footer, commits |-> commits]
Item(subject, scope, notes) ==
    [subject |-> subject, scope |-> scope, notes |-> notes, breaking |-> Undefined,
     header |-> Undefined, merge |-> Undefined, revert |-> Undefined]

\* Line 511: the heading of a release.
heading(version, release, options) ==
    "## " \o (IF truthy(options.coerce) THEN shown(coerce(version)) ELSE versionText(version))
          \o (IF truthy(release.date) THEN " (" \o release.date.text \o ")" ELSE "")

\* Lines 517-519: the commits whose notices are looked at, type after type.
RECURSIVE noticed(_, _, _)
noticed(entries, k, options) ==
    IF k > Len(entries) THEN <<>>
    ELSE (IF truthy(options.notice.all) \/ hasKey(options.types.entries, entries[k].key)
          THEN entries[k].value ELSE <<>>)
            \o noticed(entries, k + 1, options)

\* Lines 519-527: every key for every commit; notices[label] grows by what
\* getNotices finds.
RECURSIVE collect(_, _, _, _, _)
collected(commits, keys, ci, ki, notices, found) ==
    IF found.kind = "throw" THEN found
    ELSE collect(commits, keys, ci, ki + 1,
                 IF Len(found.value.items) > 0
                 THEN pushCommits(notices, keys[ki].key, found.value.items)
                 ELSE notices)

collect(commits, keys, ci, ki, notices) ==
    IF ci > Len(commits) THEN Return(notices)
    ELSE IF ki > Len(keys) THEN collect(commits, keys, ci + 1, 1, notices)
    ELSE collected(commits, keys, ci, ki, notices,
                   getNotices(commits[ci], keys[ki].key, keys[ki].value, "BREAKING CHANGE"))

\* Lines 531-539: the lines of the notices.
RECURSIVE noticeLines(_, _)
noticeLines(notices, k) ==
    IF k > Len(notices) THEN <<>>
    ELSE <<"### " \o notices[k].key, "">>
            \o [i \in 1..Len(notices[k].value) |-> "- " \o notices[k].value[i]]
            \o <<"">> \o noticeLines(notices, k + 1)

\* notice.join('\n')
RECURSIVE joinLines(_)
joinLines(lines) ==
    IF Len(lines) = 1 THEN lines[1] ELSE lines[1] \o "\n" \o joinLines(Tail(lines))

\* Lines 546-548 and 569-571.
noticeBlock(notice) == IF Len(notice) = 0 THEN <<>> ELSE <<joinLines(notice), "">>

\* The order Array.prototype.sort gives strings: by code unit.
CodeUnits == " &-./0123456789<>" \o UpperCase \o "_" \o LowerCase
RECURSIVE lessText(_, _)
lessText(a, b) ==
    IF Len(b) = 0 THEN FALSE
    ELSE IF Len(a) = 0 THEN TRUE
    ELSE IF ch(a, 1) = ch(b, 1) THEN lessText(SubSeq(a, 2, Len(a)), SubSeq(b, 2, Len(b)))
    ELSE indexIn(CodeUnits, ch(a, 1)) < indexIn(CodeUnits, ch(b, 1))

RECURSIVE sortAsc(_)
leastFirst(texts, least) == <<least>> \o sortAsc(texts \ {least})
sortAsc(texts) ==
    IF texts = {} THEN <<>>
    ELSE leastFirst(texts, CHOOSE x \in texts : \A y \in texts : ~lessText(y, x))

\* Lines 555-556: commit?.scope ?? ''.
scopeOf(commit) == orElse(commit.scope, Text("")).text

\* Line 563: the text of a bullet, undefined when the commit has none.
bulletText(commit) ==
    orElse(commit.subject, orElse(commit.breaking, orElse(commit.header,
        orElse(commit.merge, IF commit.revert.kind = "object" THEN commit.revert.header
                             ELSE Undefined))))

bullet(scope, text) == (IF scope = "" THEN "" ELSE "  ") \o "- " \o escapeHTML(text.text)

\* Lines 559-564: the label of a scope and the bullets of its commits.
scopeLines(commits, scope) ==
    (IF scope = "" THEN <<>> ELSE <<"- " \o scope>>)
        \o [i \in 1..Len(commits) |-> bullet(scope, bulletText(commits[i]))]

RECURSIVE scopesLines(_, _, _)
scopesLines(commits, scopes, k) ==
    IF k > Len(scopes) THEN <<>>
    ELSE scopeLines(SelectSeq(commits, LAMBDA commit : scopeOf(commit) = scopes[k]), scopes[k])
            \o scopesLines(commits, scopes, k + 1)

\* Lines 552-566: one section.
section(title, commits) ==
    <<"### " \o title, "">>
        \o scopesLines(commits, sortAsc({scopeOf(commits[i]) : i \in 1..Len(commits)}), 1)
        \o <<"">>

\* Lines 550-567: the sections of the types that the release has commits of.
RECURSIVE sections(_, _, _)
sections(release, types, k) ==
    IF k > Len(types) THEN <<>>
    ELSE (IF hasKey(release.commits.entries, types[k].key)
          THEN section(types[k].value, valueAt(release.commits.entries, types[k].key))
          ELSE <<>>)
            \o sections(release, types, k + 1)

\* The property names an object literal inherits: scopes[name] holds a
\* value before anything was stored under it.
InheritedNames ==
    { "constructor", "toString", "valueOf", "hasOwnProperty", "isPrototypeOf",
      "propertyIsEnumerable", "toLocaleString", "__proto__" }

\* Lines 555-556: scopes[scope] ??= [] leaves an inherited value where it is,
\* and push is no function of it.
misfiled(commits) == \E i \in 1..Len(commits) : scopeOf(commits[i]) \in InheritedNames

\* Line 563: a commit that has no text to show; escapeHTML is handed
\* undefined.
textless(commits) ==
    SelectSeq(commits, LAMBDA commit : bulletText(commit).kind # "string") # <<>>

\* What stops a section: the loop of lines 554-557 runs before the bullets.
sectionError(commits) ==
    IF misfiled(commits) THEN "TypeError: scopes[...].push is not a function"
    ELSE IF textless(commits) THEN "TypeError: str.replace"
    ELSE ""

\* The error of the first section that has one, "" when all are rendered.
RECURSIVE sectionsError(_, _, _)
errorOr(error, release, types, k) ==
    IF error # "" THEN error ELSE sectionsError(release, types, k + 1)

sectionsError(release, types, k) ==
    IF k > Len(types) THEN ""
    ELSE errorOr(IF hasKey(release.commits.entries, types[k].key)
                 THEN sectionError(valueAt(release.commits.entries, types[k].key))
                 ELSE "",
                 release, types, k)

\* Lines 511-575 once the notices are there.
rendered(version, release, options, notice) ==
    IF sectionsError(release, options.types.entries, 1) # ""
    THEN Throw(sectionsError(release, options.types.entries, 1))
    ELSE Return(
            (IF truthy(options.onlyBody) THEN <<>> ELSE <<"", heading(version, release, options), "">>)
         \o (IF truthy(release.header) THEN <<release.header.text, "">> ELSE <<>>)
         \o (IF truthy(options.notice.inFooter) THEN <<>> ELSE noticeBlock(notice))
         \o sections(release, options.types.entries, 1)
         \o (IF truthy(options.notice.inFooter) THEN noticeBlock(notice) ELSE <<>>)
         \o (IF truthy(release.footer) THEN <<release.footer.text, "">> ELSE <<>>))

withNotices(version, release, options, notices) ==
    IF notices.kind = "throw" THEN notices
    ELSE rendered(version, release, options, noticeLines(notices.value, 1))

\* Lines 510-576: what one release adds to lines.
blockOf(version, release, options) ==
    IF release.commits.kind # "object" THEN Throw("TypeError: Object.keys")
    ELSE IF Len(release.commits.entries) = 0 THEN Return(<<>>)
    ELSE withNotices(version, release, options,
                     collect(noticed(release.commits.entries, 1, options),
                             options.notice.keys.entries, 1, 1, <<>>))

\* Lines 509-578, from the k-th release on.
RECURSIVE buildFrom(_, _, _, _)
\* Line 577: the break stands after the if of line 510, not inside it.
built(releases, k, options, lines, out) ==
    IF out.kind = "throw" THEN out
    ELSE IF truthy(options.onlyFirst) THEN Return(Arr(lines \o out.value))
    ELSE buildFrom(releases, k + 1, options, lines \o out.value)

buildFrom(releases, k, options, lines) ==
    IF k > Len(releases) THEN Return(Arr(lines))
    ELSE built(releases, k, options, lines, blockOf(releases[k].key, releases[k].value, options))

\* Lines 505-507.
begun(releases, options) ==
    buildFrom(releases, 1, options, IF truthy(options.onlyBody) THEN <<>> ELSE <<"# Changelog", "">>)

buildChangelog(releases, options) == begun(releases, withDefaults(options))

\* Lines 495-503: every ??= on options and on options.notice is a write to
\* the caller's object, when the caller passed one.
assigned(options) == IF options.kind = "object" THEN withDefaults(options) ELSE options
----------------------------------------------------------------------------
(* getRepoData (lines 598-616) *)

\* Line 599: the limit of a call that names none.
DefaultLimit == 500

\* Line 599: the page size of a call that names no params.
DefaultPageSize == 100

\* Line 610: the page size assumed when params carry no per_page.
ApiPageSize == 30

Params(perPage) == [kind |-> "object", per_page |-> perPage]

RepoOptions(limit, params) == [kind |-> "object", limit |-> limit, params |-> params]

\* Line 599: { ...{ limit: 500, params: { per_page: 100 } }, ...options }; a
\* property the caller wrote replaces the default whole, even when undefined.
mergeRepoOptions(options) ==
    IF options.kind # "object" THEN RepoOptions(Num(DefaultLimit), Params(Num(DefaultPageSize)))
    ELSE RepoOptions(IF options.limit = Absent THEN Num(DefaultLimit) ELSE options.limit,
                     IF options.params = Absent THEN Params(Num(DefaultPageSize)) ELSE options.params)

\* One response of the paginating iterator: a page of items, or a failed request.
Page(items) == [kind |-> "page", data |-> items]

Failed(error) == [kind |-> "failed", error |-> error]

\* The request the iterator sends for one page of an endpoint (line 603).
Requested(endpoint, page) == [op |-> "request", endpoint |-> endpoint, page |-> page]

\* A running getRepoData: its items (line 601), the pages it has asked for, and
\* how it settled.
Fetch(endpoint, options) ==
    [endpoint |-> endpoint, status |-> "running", items |-> <<>>, asked |-> 1,
     limit |-> options.limit, params |-> options.params, error |-> Undefined]

\* Line 606: items.length >= options.limit.
reached(length, limit) == limit.kind = "number" /\ length >= limit.n

\* Line 610: options.params.per_page ?? 30.
threshold(params) ==
    IF params.per_page.kind \in {"null", "undefined", "absent"} THEN ApiPageSize
    ELSE params.per_page.n

\* Lines 604-609: how many items of the page are pushed before the loop ends,
\* at the first push that reaches the limit or at the end of the page.
taken(length, data, limit) ==
    IF \E j \in 1..Len(data) : reached(length + j, limit)
    THEN CHOOSE j \in 1..Len(data) :
            /\ reached(length + j, limit)
            /\ \A i \in 1..(j - 1) : ~reached(length + i, limit)
    ELSE Len(data)

\* The variant that never looks at the page size.
returns_LimitOnly(length, data, limit, params) ==
    \E j \in 1..Len(data) : reached(length + j, limit)

\* Lines 606-608 and 610-612: the two returns inside the loop.
returns(length, data, limit, params) ==
    \/ \E j \in 1..Len(data) : reached(length + j, limit)
    \/ Len(data) < threshold(params)

\* Lines 603-615 for one page: the items pushed, then a return (lines 607, 611,
\* or 615 when the iterator has no further page), or the next request.
received(fetch, items, stop) ==
    [fetch EXCEPT !.items = items,
                  !.status = IF stop THEN "fulfilled" ELSE "running",
                  !.asked = IF stop THEN @ ELSE @ + 1]

\* A failed request throws out of the for await: the call rejects.
rejected(fetch, error) == [fetch EXCEPT !.status = "rejected", !.error = error]

arrive(fetch, response, more) ==
    IF response.kind = "failed" THEN rejected(fetch, response.error)
    ELSE received(fetch,
                  fetch.items \o SubSeq(response.data, 1, taken(Len(fetch.items), response.data, fetch.limit)),
                  returns(Len(fetch.items), response.data, fetch.limit, fetch.params) \/ ~more)

\* The value getRepoData settles with.
settled(fetch) ==
    IF fetch.status = "rejected" THEN Throw(fetch.error)
    ELSE IF fetch.status = "fulfilled" THEN Return(Arr(fetch.items))
    ELSE Pending

\* The request that follows a page which ended neither the loop nor the pages.
asksNext(fetch) ==
    IF fetch.status = "running" THEN <<Requested(fetch.endpoint, fetch.asked)>> ELSE <<>>

----------------------------------------------------------------------------
(* filterRepoData (lines 640-670) *)

FilterOptions(limit, params, addDate, defaultType) ==
    [kind |-> "object", limit |-> limit, params |-> params, addDate |-> addDate,
     defaultType |-> defaultType]

\* Line 641: the defaults, each replaced by the property the caller wrote.
mergeFilterOptions(options) ==
    IF options.kind # "object"
    THEN FilterOptions(Num(DefaultLimit), Params(Num(DefaultPageSize)), True, TS("feat", "change"))
    ELSE FilterOptions(IF options.limit = Absent THEN Num(DefaultLimit) ELSE options.limit,
                       IF options.params = Absent THEN Params(Num(DefaultPageSize)) ELSE options.params,
                       IF options.addDate = Absent THEN True ELSE options.addDate,
                       IF options.defaultType = Absent THEN TS("feat", "change") ELSE options.defaultType)

\* Lines 645-649: the three getRepoData calls, each run to its first request,
\* in the order the array literal evaluates them.
Endpoints == <<"listCommits", "listTags", "listReleases">>

fetchesOf(options) ==
    [e \in 1..Len(Endpoints) |-> Fetch(Endpoints[e], RepoOptions(options.limit, options.params))]

firstRequests == [e \in 1..Len(Endpoints) |-> Requested(Endpoints[e], 1)]

\* A join that never looks at a rejection.
anyRejected_Never(fetches) == FALSE

\* Promise.all over the three: it rejects when the first of them rejects.
anyRejected(fetches) == \E e \in 1..Len(fetches) : fetches[e].status = "rejected"

\* Promise.all over the three: it fulfils when every one of them has.
allFulfilled(fetches) == \A e \in 1..Len(fetches) : fetches[e].status = "fulfilled"

\* The items as the API serves them, and what the local git answers.
CommitItem(sha, message) == [sha |-> sha, commit |-> [message |-> message]]

TagItem(name, sha) == [name |-> name, commit |-> [sha |-> sha]]

ReleaseItem(tagName, publishedAt, createdAt) ==
    [tag_name |-> tagName, published_at |-> publishedAt, created_at |-> createdAt]

TagRef(name, sha) == [name |-> name, sha |-> sha]

\* semver.valid(tag.name): three numbers, a leading "v" allowed.
validName(name) == Len(name.nums) = 3

\* Line 652: tags.sort((a, b) => semver.compare(b.name, a.name)); the sort is
\* stable, so a tag goes behind every tag that is not smaller.
placedTag(sorted, tag, before) ==
    SubSeq(sorted, 1, before) \o <<tag>> \o SubSeq(sorted, before + 1, Len(sorted))

insertTag(sorted, tag) ==
    placedTag(sorted, tag, Cardinality({t \in 1..Len(sorted) : compare(sorted[t].name, tag.name) >= 0}))

RECURSIVE sortTags(_, _)
sortTags(tags, n) ==
    IF n = 0 THEN <<>> ELSE insertTag(sortTags(tags, n - 1), tags[n])

\* Line 651: the tags with a valid name, as { name, sha }.
validTags(allTags) ==
    [t \in 1..Len(allTags) |-> TagRef(allTags[t].name, allTags[t].commit.sha)]

sortedTags(tags) == sortTags(tags, Len(tags))

tagsOf(allTags) == sortedTags(validTags(SelectSeq(allTags, LAMBDA tag : validName(tag.name))))

\* Object.fromEntries: a key written again keeps its place and takes the new
\* value.
written(sofar, entry) ==
    IF \E e \in 1..Len(sofar) : sofar[e].key = entry.key
    THEN [e \in 1..Len(sofar) |-> IF sofar[e].key = entry.key THEN entry ELSE sofar[e]]
    ELSE Append(sofar, entry)

RECURSIVE fromEntries(_, _)
fromEntries(entries, n) ==
    IF n = 0 THEN <<>> ELSE written(fromEntries(entries, n - 1), entries[n])

\* obj[key], undefined for a key the object lacks.
lookup(entries, key) ==
    IF \E e \in 1..Len(entries) : entries[e].key = key
    THEN entries[CHOOSE e \in 1..Len(entries) : entries[e].key = key].value
    ELSE Undefined

\* Line 653: sha -> message.
commitsOf(allCommits) ==
    fromEntries([n \in 1..Len(allCommits) |-> Entry(allCommits[n].sha, allCommits[n].commit.message)],
                Len(allCommits))

\* (published_at || created_at || '').slice(0, 10)
sliceDate(date) == Text(SubSeq(date.text, 1, IF Len(date.text) < 10 THEN Len(date.text) ELSE 10))

dateOf(release) ==
    sliceDate(IF truthy(release.published_at) THEN release.published_at
              ELSE IF truthy(release.created_at) THEN release.created_at
              ELSE Text(""))

\* Line 654: tag_name -> { date }.
releasesOf(allReleases) ==
    fromEntries([r \in 1..Len(allReleases) |->
                    Entry(allReleases[r].tag_name, [date |-> dateOf(allReleases[r])])],
                Len(allReleases))

\* Lines 656-660: the release's date, or for the newest tag without one the
\* date options.addDate supplies (today's date when it is true).
addedDate(date, addDate, newest, today) ==
    IF truthy(addDate) /\ ~truthy(date) /\ newest
    THEN (IF addDate = True THEN today ELSE addDate)
    ELSE date

releaseDate(release, addDate, newest, today) ==
    addedDate(IF release = Undefined THEN Text("") ELSE release.date, addDate, newest, today)

\* getCommitSHAs (lines 700-711): git rev-list base..head, or head alone;
\* a command that fails is logged and gives no hashes.
Range(base, head) == [base |-> base, head |-> head]

RevList(range) == [op |-> "git rev-list", range |-> range]

ForEachRef(tag) == [op |-> "git for-each-ref", tag |-> tag]

ConsoleError(command) == [op |-> "console.error", command |-> command]

hashesOr(answer) == IF answer.kind = "undefined" THEN <<>> ELSE answer.items

getCommitSHAs(git, range) == hashesOr(lookup(git.revs, range))

\* getTagMessage (lines 678-692): the tag's subject, null when it is empty,
\* ends in a version, or the command fails.
subjectOr(answer) ==
    IF answer = Undefined THEN Null
    ELSE IF answer.text = "" \/ validName(answer.last) THEN Null
    ELSE Text(answer.text)

getTagMessage(git, tag) == subjectOr(lookup(git.subjects, tag))

\* What each git command leaves behind: itself, and the log of its failure.
ran(effect, answer) ==
    IF answer = Undefined THEN <<effect, ConsoleError(effect.op)>> ELSE <<effect>>

\* Line 662: hashes.map(sha => commits[sha]).filter(Boolean)
messagesOf(hashes, commits) ==
    SelectSeq([h \in 1..Len(hashes) |-> lookup(commits, hashes[h])], LAMBDA message : truthy(message))

\* Line 665: the entry of one tag.
RepoRelease(tag, date, description, messages, groups) ==
    [tag |-> tag, name |-> Null, date |-> date, description |-> description,
     messages |-> messages, commits |-> groups]

\* Lines 655-666 for the tags from k on: each tag's commits are listed, parsed
\* and grouped; an error thrown by getCommits ends the call.
RECURSIVE releasesFrom(_, _, _, _), releaseOf(_, _, _, _, _, _)
releaseOf(tags, k, env, acc, messages, got) ==
    IF got.ret.kind = "throw"
    THEN Outcome(got.ret, acc.effects \o ran(RevList(env.range[k]), lookup(env.git.revs, env.range[k])) \o got.effects)
    ELSE releasesFrom(tags, k + 1, env,
            Outcome(Append(acc.ret,
                           Entry(tags[k].name,
                                 RepoRelease(tags[k].name,
                                             releaseDate(lookup(env.releases, tags[k].name),
                                                         env.options.addDate, k = 1, env.today),
                                             getTagMessage(env.git, tags[k].name),
                                             messages, got.ret.value.groups))),
                    acc.effects \o ran(RevList(env.range[k]), lookup(env.git.revs, env.range[k]))
                                \o got.effects
                                \o ran(ForEachRef(tags[k].name), lookup(env.git.subjects, tags[k].name))))

parsedMessages(tags, k, env, acc, messages) ==
    releaseOf(tags, k, env, acc, messages,
              getCommits(messages, ParseOptions(env.options.defaultType, validTypes)))

releasesFrom(tags, k, env, acc) ==
    IF k > Len(tags) THEN Outcome(Return(fromEntries(acc.ret, Len(acc.ret))), acc.effects)
    ELSE parsedMessages(tags, k, env, acc,
                        messagesOf(getCommitSHAs(env.git, env.range[k]), env.commits))

\* Line 661: the range of each tag, from the next older tag to it.
rangesOf(tags) ==
    [k \in 1..Len(tags) |->
        Range(IF k < Len(tags) THEN tags[k + 1].name ELSE Null, tags[k].name)]

Env(options, git, today, commits, releases, ranges) ==
    [options |-> options, git |-> git, today |-> today, commits |-> commits,
     releases |-> releases, range |-> ranges]

\* Lines 667-669.
RepoData(tags, commits, releases) ==
    [kind |-> "object", tags |-> tags, commits |-> Dict(commits), releases |-> Dict(releases),
     headTag |-> IF Len(tags) > 0 THEN tags[1].name ELSE Null]

filtered(tags, commits, made) ==
    IF made.ret.kind = "throw" THEN made
    ELSE Outcome(Return(RepoData(tags, commits, made.ret.value)), made.effects)

processed(tags, commits, releases, options, git, today) ==
    filtered(tags, commits,
             releasesFrom(tags, 1, Env(options, git, today, commits, releases, rangesOf(tags)),
                          Outcome(<<>>, <<>>)))

\* Lines 651-669, run once the three arrays are there.
filterRepoData(allCommits, allTags, allReleases, options, git, today) ==
    processed(tagsOf(allTags), commitsOf(allCommits), releasesOf(allReleases), options, git, today)

----------------------------------------------------------------------------
(* The arguments the calls are drawn from *)

\* Entries of a versions array: plain, v-prefixed, partial, prerelease and
\* one string that holds no version ("abc").
VersionEntries ==
    { Str("", <<0, 0, 1>>, ""), Str("v", <<0, 1, 0>>, ""), Str("", <<1, 0, 0>>, ""),
      Str("", <<0, 0, 2>>, ""), Str("v", <<1, 0>>, "beta"), Str("v", <<2, 0, 1>>, ""),
      Str("", <<>>, "") }

RECURSIVE SeqsUpTo(_, _)
SeqsUpTo(S, n) ==
    IF n = 0 THEN {<<>>}
    ELSE LET shorter == SeqsUpTo(S, n - 1)
         IN shorter \cup {Append(str, x) : str \in {t \in shorter : Len(t) = n - 1}, x \in S}

VersionsArgs == {Arr(items) : items \in SeqsUpTo(VersionEntries, MaxLen)} \cup {Text("not an array")}

TargetArgs ==
    { Str("", <<0, 0, 1>>, ""), Str("v", <<0, 0, 2>>, ""), Str("v", <<0, 1, 0>>, ""),
      Str("", <<1, 0, 0>>, ""), Str("", <<1, 0, 0>>, "beta"), Str("v", <<1, 2, 2>>, ""),
      Str("", <<2>>, ""), Str("v", <<>>, ""), Num(123) }

TypeArgs ==
    { Text("MAJOR"), Text("MINOR"), Text("PATCH"), Text("major"), Text("INVALID"),
      Undefined, Null }

FindCall(vs, t, ty) ==
    [fn |-> "findPreviousVersion", versions |-> vs, versionToFind |-> t, type |-> ty]

\* Messages: a first word, which the starts-with cases read, followed by up
\* to MaxTail further words, which the contains cases read as well.
LeadWords ==
    { "merge", "add", "Added", "address", "creating", "license", "travis", "bug", "typo",
      "bump", "cache", "tests", "eslint", "build", "1.2.3", "refactor", "fix", "fixes",
      "update", "change", "remove", "upgrade", "clean", "xyz" }
TailWords == {"docs", "version"}

RECURSIVE join(_)
join(words) ==
    IF Len(words) = 0 THEN ""
    ELSE IF Len(words) = 1 THEN words[1]
    ELSE words[1] \o " " \o join(Tail(words))

Messages ==
    {join(<<w>> \o t) : w \in LeadWords, t \in SeqsUpTo(TailWords, MaxTail)}
        \cup {"bug fix for typo", "Merge branch dev into main"}

\* Omitted, { defaultType }, { forceType: 'feat' } with and without a default,
\* and the { defaultType: false, forceType } that parseCommitMessage passes.
OptionsArgs ==
    { Undefined, Options(TS("feat", "change"), Absent), Options(Absent, Text("feat")),
      Options(T("chore"), Text("feat")), Options(False, Text("fix")) }

MessageCall(m, o) == [fn |-> "getMessageType", message |-> m, options |-> o]

\* Most notes a commit carries.
MaxNotes == 2

\* Notes as the header parser extracts them from footers.
Notes ==
    { Note("BREAKING CHANGE", "drops v1"), Note("BREAKING-CHANGE", "renames x"),
      Note("DEPRECATED", "old flag") }

\* Commits as getNotices reads them: notes (or none) and a breaking text (or none).
NoticeCommits ==
    { [notes |-> n, breaking |-> b] :
        n \in {Arr(items) : items \in SeqsUpTo(Notes, MaxNotes)} \cup {Undefined},
        b \in {Undefined, Text("api changed")} }

\* No check, a literal, the README's slashed string and the renderer's default.
CheckArgs ==
    { Null, Text("BREAKING CHANGE"), Text("/^BREAKING[ -]CHANGE$/"),
      RegExp("^BREAKING[ -]CHANGE$") }

LabelArgs == {"BREAKING CHANGES", "BREAKING CHANGE", "DEPRECATED"}
NoticeCall(cm, l, ck) == [fn |-> "getNotices", commit |-> cm, label |-> l, check |-> ck]

\* Records as a caller hands them to parseCommitMessage: with or without a
\* declared type, a subject, a header, a merge line and a revert.
ParsedCommits ==
    { [Commit(ty, su, he, me, re) EXCEPT !.orig = he] :
        ty \in {Null, Text("feat"), Text("fix"), Text("wip")},
        su \in {Null, Text("add api"), Text("remove docs"), Text("xyz")},
        he \in {Null, Text("bump version")},
        me \in {Null, Text("Merge branch dev into main")},
        re \in {Null, [kind |-> "object"]} }

ParseOptionsArgs ==
    { Undefined, ParseOptions(False, validTypes), ParseOptions(TS("feat", "change"), validTypes) }

ParseCall(cm, o) == [fn |-> "parseCommitMessage", commit |-> cm, options |-> o]

\* Most messages in one batch.
MaxMessages == 2

\* Commit messages: a declared valid type, a declared feat, a declared type
\* that is not valid, a merge, none at all, and one the parser rejects.
CommitMessages ==
    { Text("fix: typo"), Text("feat: add api"), Text("feat: add cli"), Text("wip: add docs"),
      Text("Merge branch dev into main"), Text(""), Text(" ") }

CommitsOptionsArgs ==
    { Undefined, ParseOptions(TS("feat", "change"), validTypes),
      ParseOptions(False, <<"docs", "fix">>), ParseOptions(False, <<"wip", "fix">>) }

MessagesArgs == SeqsUpTo(CommitMessages, MaxMessages)
CommitsCall(ms, o) == [fn |-> "getCommits", messages |-> ms, options |-> o]

\* groupReleases: up to MaxReleases releases with distinct tags, in the order
\* Object.entries gives them; two tags share a minor line, three a major
\* line, one holds no version.
MaxReleases == 3
ReleaseTags ==
    << Str("", <<1, 2, 3>>, ""), Str("v", <<1, 2, 0>>, ""), Str("", <<1, 3, 0>>, ""),
       Str("", <<2, 0, 0>>, ""), Str("", <<>>, "") >>
ReleaseNames == <<"Release 1", "Release 2", "Release 3", "Release 4", "Nightly">>
ReleaseDates == <<"2023-01-01", "2023-01-15", "2023-02-01", "2023-03-01", "2023-04-01">>
ReleaseMessages == <<"Fix bug", "Add feature", "Minor update", "Major update", "Try out">>
\* A commit, told from every other by the release and its place in it.
CommitOf(n, i) == [subject |-> ReleaseMessages[n], release |-> n, nth |-> i]
\* The bodies of the n-th release: all properties, or a date only.
ReleaseBodies(n) ==
    { Release(Text(ReleaseNames[n]), Text(ReleaseDates[n]), Arr(<<ReleaseMessages[n]>>),
              Dict(<<Entry("fix", <<CommitOf(n, 1)>>), Entry("feat", <<CommitOf(n, 2)>>)>>)),
      Release(Undefined, Text(ReleaseDates[n]), Undefined, Undefined) }
ReleaseEntries ==
    UNION {{Entry(ReleaseTags[n], body) : body \in ReleaseBodies(n)} : n \in 1..Len(ReleaseTags)}
ReleasesArgs ==
    {rs \in SeqsUpTo(ReleaseEntries, MaxReleases) :
        \A i, j \in 1..Len(rs) : i # j => rs[i].key # rs[j].key}
GroupByArgs == {Undefined, Text("minor"), Text("major"), Text("MAJOR")}
GroupCall(rs, g) == [fn |-> "groupReleases", releases |-> rs, groupBy |-> g]

\* buildChangelog: up to MaxBlocks releases with distinct tags; a release
\* without grouped commits, one with a fix, one with scoped and unscoped
\* additions and a type that is not rendered, one whose commit has a note,
\* one with a commit whose scope is "constructor".
MaxBlocks == 2
BlockTags == {Str("", <<1, 1, 0>>, ""), Str("v", <<1, 0>>, "beta"), Str("", <<>>, "")}
BlockBodies ==
    { Block(Text("2023-02-01"), Undefined, Undefined, Dict(<<>>)),
      Block(Undefined, Undefined, Undefined,
            Dict(<<Entry("fix", <<Item(Text("typo in <title>"), Undefined, Undefined)>>)>>)),
      Block(Text("2023-01-01"), Text("First release"), Text("Thanks"),
            Dict(<<Entry("docs", <<Item(Text("readme"), Undefined, Undefined)>>),
                   Entry("feat_add", <<Item(Text("flag"), Text("cli"), Undefined),
                                       Item(Text("api"), Null, Undefined),
                                       Item(Text("Cache"), Text("Core"), Undefined),
                                       Item(Text("help"), Text("cli"), Undefined)>>)>>)),
      Block(Undefined, Undefined, Undefined,
            Dict(<<Entry("feat_remove",
                         <<Item(Text("v1 api"), Undefined,
                                Arr(<<Note("BREAKING CHANGE", "drops v1")>>))>>)>>)),
      Block(Undefined, Undefined, Undefined,
            Dict(<<Entry("fix", <<Item(Text("null check"), Text("constructor"), Undefined),
                                  Item(Text("typo"), Undefined, Undefined)>>)>>)) }
BlockEntries == {Entry(tag, body) : tag \in BlockTags, body \in BlockBodies}
BlocksArgs ==
    {rs \in SeqsUpTo(BlockEntries, MaxBlocks) :
        \A i, j \in 1..Len(rs) : i # j => rs[i].key # rs[j].key}
LiteralKeys == Dict(<<Entry("BREAKING CHANGES", Text("BREAKING CHANGE"))>>)
BuildOptionsArgs ==
    { Undefined,
      BuildOptions(Undefined, True, Undefined, Undefined, Undefined),
      BuildOptions(False, True, True, Undefined, Notice(LiteralKeys, Undefined, Undefined)),
      BuildOptions(Undefined, Undefined, Undefined, Undefined, Notice(LiteralKeys, True, False)),
      BuildOptions(Undefined, False, Undefined,
                   Dict(<<Entry("fix", "Fixed"), Entry("docs", "Documentation")>>),
                   Notice(Dict(<<>>), Undefined, Undefined)) }
BuildCall(rs, o) == [fn |-> "buildChangelog", releases |-> rs, options |-> o]


\* getRepoData: the endpoint, the options, and the pages the API serves.
MaxPages == 3

MaxPageLen == 2

\* An item of a page, named by where the API serves it.
Datum(page, nth) == [page |-> page, nth |-> nth]

\* A page of each length up to MaxPageLen; -1 is a request that fails.
PageShapes == {shape \in SeqsUpTo((-1)..MaxPageLen, MaxPages) : shape # <<>>}

Served(shape) ==
    [p \in 1..Len(shape) |->
        IF shape[p] < 0 THEN Failed(Text("HttpError"))
        ELSE Page([i \in 1..shape[p] |-> Datum(p, i)])]

LimitArgs == {Num(1), Num(2), Num(3), Absent}

ParamsArgs == {Params(Num(2)), Params(Undefined)}

RepoOptionsArgs == {Undefined} \cup {RepoOptions(l, p) : l \in LimitArgs, p \in ParamsArgs}

RepoCall(shape, options) ==
    [fn |-> "getRepoData", endpoint |-> "listCommits", options |-> options,
     api |-> [listCommits |-> Served(shape)]]

\* filterRepoData: what the three endpoints serve, the options, the local
\* git's answers and today's date.
Tag110 == Str("v", <<1, 1, 0>>, "")

Tag100 == Str("", <<1, 0, 0>>, "")

Nightly == Str("", <<>>, "")

CommitPagesArgs ==
    { <<Page(<<CommitItem("b2", Text("feat: add api")), CommitItem("b1", Text("fix: typo"))>>),
        Page(<<CommitItem("a1", Text("wip: add docs"))>>)>>,
      <<Page(<<CommitItem("b2", Text("feat: add api")), CommitItem("b1", Text("fix: typo"))>>),
        Failed(Text("listCommits failed"))>>,
      <<Failed(Text("listCommits failed"))>> }

TagPagesArgs ==
    { <<Page(<<TagItem(Tag100, "a1"), TagItem(Nightly, "b1")>>), Page(<<TagItem(Tag110, "b2")>>)>>,
      <<Failed(Text("listTags failed"))>> }

ReleasePagesArgs ==
    { <<Page(<<ReleaseItem(Tag110, Text("2024-05-02T08:00:00Z"), Text("2024-05-01T17:45:10Z")),
               ReleaseItem(Tag100, Null, Text("2024-01-15T09:30:00Z"))>>)>>,
      <<Page(<<>>)>>,
      <<Failed(Text("listReleases failed"))>> }

FilterOptionsArgs ==
    { Undefined,
      FilterOptions(Num(3), Params(Num(2)), Absent, Absent),
      FilterOptions(Absent, Params(Num(2)), Text("2024-06-01"), False) }

Subject(text, last) == [text |-> text, last |-> last]

Git(revs, subjects) == [revs |-> revs, subjects |-> subjects]

GitArgs ==
    { Git(<<Entry(Range(Tag100, Tag110), Arr(<<"b2", "b1">>)), Entry(Range(Null, Tag100), Arr(<<"a1">>))>>,
          <<Entry(Tag110, Subject("Release v1.1.0", Tag110)),
            Entry(Tag100, Subject("First stable release", Nightly))>>),
      Git(<<>>, <<>>) }

Today == Text("2024-06-30")

FilterCall(commits, tags, releases, options, git) ==
    [fn |-> "filterRepoData", options |-> options,
     api |-> [listCommits |-> commits, listTags |-> tags, listReleases |-> releases],
     git |-> git, today |-> Today]

----------------------------------------------------------------------------
(* The state machine *)

\* The call, what it produced, and what it did to its collaborators (the
\* parser, the classifier, the console, the API) on the way; the objects the
\* caller passed, as they are now; the fetches that are under way.
VARIABLES call, ret, effects, passed, inflight
vars == <<call, ret, effects, passed, inflight>>

\* One call of one of the functions, its arguments drawn from the sets above.
Called ==
    \/ \E vs \in VersionsArgs, t \in TargetArgs, ty \in TypeArgs : call = FindCall(vs, t, ty)
    \/ \E m \in Messages, o \in OptionsArgs : call = MessageCall(m, o)
    \/ \E cm \in NoticeCommits, l \in LabelArgs, ck \in CheckArgs : call = NoticeCall(cm, l, ck)
    \/ \E cm \in ParsedCommits, o \in ParseOptionsArgs : call = ParseCall(cm, o)
    \/ \E ms \in MessagesArgs, o \in CommitsOptionsArgs : call = CommitsCall(ms, o)
    \/ \E rs \in ReleasesArgs, g \in GroupByArgs : call = GroupCall(rs, g)
    \/ \E rs \in BlocksArgs, o \in BuildOptionsArgs : call = BuildCall(rs, o)
    \/ \E sh \in PageShapes, o \in RepoOptionsArgs : call = RepoCall(sh, o)
    \/ \E cs \in CommitPagesArgs, ts \in TagPagesArgs, rs \in ReleasePagesArgs,
          o \in FilterOptionsArgs, g \in GitArgs : call = FilterCall(cs, ts, rs, o, g)

Init == Called /\ ret = Pending /\ effects = <<>> /\ passed = call /\ inflight = <<>>

\* A call that ends with this outcome.
Produces(outcome) == ret' = outcome.ret /\ effects' = outcome.effects

CallFindPreviousVersion ==
    /\ call.fn = "findPreviousVersion"
    /\ ret = Pending
    /\ ret' = findPreviousVersion(call.versions, call.versionToFind, call.type)
    /\ UNCHANGED <<call, effects, passed, inflight>>

CallGetMessageType ==
    /\ call.fn = "getMessageType"
    /\ ret = Pending
    /\ ret' = getMessageType(call.message, call.options)
    /\ UNCHANGED <<call, effects, passed, inflight>>

\* getNotices(commit, label, check) with breakingLabel left at its default.
CallGetNotices ==
    /\ call.fn = "getNotices"
    /\ ret = Pending
    /\ ret' = getNotices(call.commit, call.label, call.check, "BREAKING CHANGE")
    /\ UNCHANGED <<call, effects, passed, inflight>>

CallParseCommitMessage ==
    /\ call.fn = "parseCommitMessage"
    /\ ret = Pending
    /\ Produces(parseCommitMessage(call.commit, mergeParseOptions(call.options)))
    /\ UNCHANGED <<call, passed, inflight>>

CallGetCommits ==
    /\ call.fn = "getCommits"
    /\ ret = Pending
    /\ Produces(getCommits(call.messages, call.options))
    /\ UNCHANGED <<call, passed, inflight>>

CallGroupReleases ==
    /\ call.fn = "groupReleases" /\ ret = Pending
    /\ ret' = groupReleases(call.releases, call.groupBy)
    /\ UNCHANGED <<call, effects, passed, inflight>>

\* Lines 495-503 write the defaults into the object the caller passed.
CallBuildChangelog ==
    /\ call.fn = "buildChangelog" /\ ret = Pending
    /\ ret' = buildChangelog(call.releases, call.options)
    /\ passed' = [passed EXCEPT !.options = assigned(@)]
    /\ UNCHANGED <<call, effects, inflight>>

\* Lines 641-649: the options are merged into a new object and the three
\* fetches started; the call then waits for them.
CallFilterRepoData ==
    /\ call.fn = "filterRepoData" /\ ret = Pending /\ inflight = <<>>
    /\ inflight' = fetchesOf(mergeFilterOptions(call.options))
    /\ effects' = firstRequests
    /\ UNCHANGED <<call, ret, passed>>

\* Line 603: the call runs to its first await, the request for the first page.
CallGetRepoData ==
    /\ call.fn = "getRepoData" /\ ret = Pending /\ inflight = <<>>
    /\ inflight' = <<Fetch(call.endpoint, mergeRepoOptions(call.options))>>
    /\ effects' = <<Requested(call.endpoint, 1)>>
    /\ UNCHANGED <<call, ret, passed>>

\* The awaiting code's outcome and the request sent, if any, after a response.
Resumes(outcome, request) ==
    /\ ret' = outcome.ret
    /\ effects' = effects \o request \o outcome.effects

\* Line 645: the await on Promise.all resumes filterRepoData with the error of
\* the first fetch to reject, or with the three arrays once all have fulfilled.
awaited(fetches, i) ==
    IF anyRejected(fetches) THEN Outcome(Throw(fetches[i].error), <<>>)
    ELSE IF allFulfilled(fetches)
    THEN filterRepoData(fetches[1].items, fetches[2].items, fetches[3].items,
                        mergeFilterOptions(call.options), call.git, call.today)
    ELSE Outcome(Pending, <<>>)

\* What the caller's promise becomes once the fetch at position i has taken
\* its response; a promise that has settled stays as it is.
Resumed(fetches, i) ==
    IF ret # Pending THEN Outcome(ret, <<>>)
    ELSE IF call.fn = "getRepoData" THEN Outcome(settled(fetches[i]), <<>>)
    ELSE awaited(fetches, i)

Delivered(fetches, i) ==
    /\ inflight' = fetches
    /\ Resumes(Resumed(fetches, i), asksNext(fetches[i]))

\* A response reaches the fetch that asked for it: lines 603-615 run up to the
\* next request or to the return, and whoever awaits the fetch resumes.
Responds ==
    \E i \in 1..Len(inflight) :
        /\ inflight[i].status = "running"
        /\ Delivered([inflight EXCEPT ![i] =
                        arrive(@, call.api[@.endpoint][@.asked],
                               @.asked < Len(call.api[@.endpoint]))], i)
        /\ UNCHANGED <<call, passed>>

Next ==
    \/ CallFindPreviousVersion \/ CallGetMessageType \/ CallGetNotices
    \/ CallParseCommitMessage \/ CallGetCommits \/ CallGroupReleases
    \/ CallBuildChangelog \/ CallGetRepoData \/ CallFilterRepoData \/ Responds

Spec == Init /\ [][Next]_vars

----------------------------------------------------------------------------
(* What the claims about findPreviousVersion speak of *)

Done == ret.kind # "pending"
FindDone == call.fn = "findPreviousVersion" /\ Done

\* The granularity a call asks for: PATCH when the argument is left out.
Granularity ==
    IF call.type.kind = "undefined" THEN "PATCH"
    ELSE IF call.type.kind = "string" THEN toUpperCase(call.type.text)
    ELSE "none"

\* An array, a target string that coerces, a granularity of the three.
WellFormed ==
    /\ call.versions.kind = "array"
    /\ call.versionToFind.kind = "string"
    /\ coerce(call.versionToFind) # Null
    /\ Granularity \in {"MAJOR", "MINOR", "PATCH"}

Target == coerce(call.versionToFind)
Entries == call.versions.items
AllCoerce == \A i \in 1..Len(Entries) : coerce(Entries[i]) # Null
\* The versions of the list: its entries coerced, the uncoercible ones dropped.
Listed == {coerce(Entries[i]) : i \in {j \in 1..Len(Entries) : coerce(Entries[j]) # Null}}
Floor ==
    IF Granularity = "MAJOR" THEN SemVer(Target.major, 0, 0, "")
    ELSE SemVer(Target.major, Target.minor, 0, "")
AtOrAboveFloor == {sv \in Listed : compareSemVer(sv, Floor) >= 0}
BelowTarget == {sv \in Listed : compareSemVer(sv, Target) < 0}
Least(S) == CHOOSE x \in S : \A y \in S : compareSemVer(x, y) <= 0
Greatest(S) == CHOOSE x \in S : \A y \in S : compareSemVer(x, y) >= 0
\* The call returned a version string that reads as sv.
ReturnedVersion(sv) ==
    /\ ret.kind = "return"
    /\ ret.value.kind = "string"
    /\ coerce(ret.value) = sv
ReturnedNull == ret.kind = "return" /\ ret.value.kind = "null"

\* C4 as it reads on every array, the ones with uncoercible entries included.
C4_OnEveryList ==
    (FindDone /\ WellFormed /\ Granularity = "PATCH" /\ Target \in Listed)
        => IF BelowTarget = {} THEN ReturnedNull
           ELSE ReturnedVersion(Greatest(BelowTarget))

(* C4: under PATCH, for a target that is an element of a list of versions,
   the result is the element just below the target in the ascending order
   of the list, and null when the target is the lowest element. *)
C4_PatchPredecessor ==
    (FindDone /\ WellFormed /\ AllCoerce /\ Granularity = "PATCH" /\ Target \in Listed)
        => IF BelowTarget = {} THEN ReturnedNull
           ELSE ReturnedVersion(Greatest(BelowTarget))

\* A PATCH call on a list given out of order, whose target has a predecessor.
C4_Witness ==
    /\ FindDone /\ WellFormed /\ AllCoerce /\ Granularity = "PATCH"
    /\ Target \in Listed
    /\ Len(Entries) = 3
    /\ compareSemVer(coerce(Entries[1]), coerce(Entries[2])) > 0
    /\ BelowTarget # {}
    /\ ReturnedVersion(Greatest(BelowTarget))

\* There is nothing to find: no listed version at or above the floor (MAJOR,
\* MINOR), the target not among the listed versions (PATCH).
NoMatchExists ==
    IF Granularity = "PATCH" THEN Target \notin Listed ELSE AtOrAboveFloor = {}

(* C5: for well-formed arguments (an array of version strings, a target that
   coerces, one of the three granularities) a call with nothing to find
   returns exactly null and does not throw. *)
C5_NullWhenNoMatch ==
    (FindDone /\ WellFormed /\ AllCoerce /\ NoMatchExists) => ReturnedNull

(* C6: under MAJOR (MINOR) the result is the least listed version at or above
   target.major.0.0 (target.major.target.minor.0), for every list. *)
C6_LeastAtOrAboveFloor ==
    (FindDone /\ WellFormed /\ Granularity \in {"MAJOR", "MINOR"} /\ AtOrAboveFloor # {})
        => ReturnedVersion(Least(AtOrAboveFloor))

\* C6 on the arrays all of whose entries coerce, in whatever order.
C6_OnCoercibleLists ==
    (FindDone /\ WellFormed /\ AllCoerce /\ Granularity \in {"MAJOR", "MINOR"}
        /\ AtOrAboveFloor # {})
        => ReturnedVersion(Least(AtOrAboveFloor))

(* C7: a version returned under MAJOR has the target's major number, one
   returned under MINOR the target's major and minor numbers. *)
C7_ResultInOwnLine ==
    (FindDone /\ WellFormed /\ ret.kind = "return" /\ ret.value.kind = "string")
        => /\ Granularity = "MAJOR" => coerce(ret.value).major = Target.major
           /\ Granularity = "MINOR" =>
                /\ coerce(ret.value).major = Target.major
                /\ coerce(ret.value).minor = Target.minor

\* A returned version starts with "v" exactly when the target did.
PrefixFollowsTarget ==
    (FindDone /\ ret.kind = "return" /\ ret.value.kind = "string")
        => (ret.value.v = "v" <=> call.versionToFind.v = "v")

\* findPreviousVersion(list, "v0.0.2", "PATCH") was called.
PatchOfV002(list) ==
    /\ FindDone
    /\ call.versions = Arr(list)
    /\ call.versionToFind = Str("v", <<0, 0, 2>>, "")
    /\ call.type = Text("PATCH")

(* C8 as written: the prefix of a returned version follows the target's, and
   findPreviousVersion(["0.0.1"], "v0.0.2", "PATCH") returns "v0.0.1". *)
C8_PrefixAndExample ==
    /\ PrefixFollowsTarget
    /\ PatchOfV002(<<Str("", <<0, 0, 1>>, "")>>) => ret = Return(Str("v", <<0, 0, 1>>, ""))

(* C8, amended: the prefix of a returned version follows the target's, and
   findPreviousVersion(["0.0.1", "0.0.2"], "v0.0.2", "PATCH") returns "v0.0.1". *)
C8_PrefixPreserved ==
    /\ PrefixFollowsTarget
    /\ PatchOfV002(<<Str("", <<0, 0, 1>>, ""), Str("", <<0, 0, 2>>, "")>>)
          => ret = Return(Str("v", <<0, 0, 1>>, ""))

\* A v-prefixed version came back from a list without any prefixed entry.
C8_Witness ==
    /\ PatchOfV002(<<Str("", <<0, 0, 1>>, ""), Str("", <<0, 0, 2>>, "")>>)
    /\ ret.kind = "return" /\ ret.value.kind = "string" /\ ret.value.v = "v"

(* C9: uncoercible entries are discarded: the call does not throw and returns
   what it returns for the list without them. *)
C9_UncoercibleDiscarded ==
    (FindDone /\ WellFormed /\ ~AllCoerce)
        => /\ ret.kind # "throw"
           /\ ret = findPreviousVersion(
                        Arr(SelectSeq(Entries, LAMBDA e : coerce(e) # Null)),
                        call.versionToFind, call.type)

\* One of the four malformed arguments of C10.
Malformed ==
    \/ call.versions.kind # "array"
    \/ call.versionToFind.kind # "string"
    \/ Granularity \notin {"MAJOR", "MINOR", "PATCH"}
    \/ coerce(call.versionToFind) = Null

(* C10: a call with a non-array versions, a non-string target, a granularity
   other than MAJOR, MINOR, PATCH in any letter case, or an uncoercible
   target throws, and throws before the list is looked at. *)
C10_ThrowsOnMalformed ==
    (FindDone /\ Malformed)
        => ret.kind = "throw" /\ ret.error # "TypeError: coerce(v).version"

\* A lower-case granularity was accepted and an unknown one rejected while
\* the list held an entry whose lookup would itself have thrown.
C10_Witness ==
    /\ FindDone
    /\ call.type = Text("INVALID")
    /\ call.versions.kind = "array"
    /\ ~AllCoerce
    /\ ret = Throw("Invalid input parameters")

----------------------------------------------------------------------------
(* What the claims about getMessageType speak of *)

TypeDone == call.fn = "getMessageType" /\ Done
ForcedFeat == mergeOptions(call.options).forceType = Text("feat")

\* The buckets of the cascade in the order the claim gives them, each with
\* the type it resolves to.
BucketOrder ==
    << "Merge", "Docs", "CI", "Fix", "Chore", "Perf", "Test", "Style", "Build", "Refactor",
       "Fix 2", "Chore 2", "Feat (Add)", "Feat (Change)", "Feat (Remove)",
       "Build 2", "Chore 3", "Test 2", "Fix 3", "Refactor 2" >>
BucketType ==
    << "merge", "docs", "ci", "fix", "chore", "perf", "test", "style", "build", "refactor",
       "fix", "chore", "feat", "feat", "feat",
       "build", "chore", "test", "fix", "refactor" >>

\* The buckets with a case that holds for the message.
MatchedBuckets(message) ==
    {cascade[i].bucket : i \in {j \in 1..Len(cascade) : holds(cascade[j].case, message)}}
Earliest(buckets) ==
    CHOOSE k \in 1..Len(BucketOrder) :
        BucketOrder[k] \in buckets /\ \A j \in 1..(k - 1) : BucketOrder[j] \notin buckets

(* C1: the cascade resolves a message to the type of the earliest bucket, in
   the order merge, docs, ci, fix, chore, perf, test, style, build, refactor,
   fix, chore(update), feat add, change, remove, then the bare-word
   fallbacks, among the buckets whose cases the message satisfies. *)
C1_FirstMatchWins ==
    (TypeDone /\ ~ForcedFeat)
        => LET matched == MatchedBuckets(call.message)
           IN matched # {}
                => ret.kind = "return" /\ ret.value.type = BucketType[Earliest(matched)]

\* "add docs" satisfies the docs bucket and the later feat-add bucket, and
\* resolved to docs.
C1_Witness ==
    /\ TypeDone /\ ~ForcedFeat
    /\ call.message = "add docs"
    /\ {"Docs", "Feat (Add)"} \subseteq MatchedBuckets(call.message)
    /\ ret = Return(T("docs"))

NoRuleMatches == \A i \in 1..Len(cascade) : ~holds(cascade[i].case, call.message)
\* The result the claim prescribes when nothing matches.
DefaultOrOther ==
    IF call.options.kind = "object" /\ call.options.defaultType.kind = "object"
    THEN call.options.defaultType
    ELSE T("other")

(* C2 as written: the call returns and never throws, and when no rule of the
   cascade matches the result is options.defaultType if one was supplied and
   { type: "other" } otherwise, for every options value. *)
C2_TotalWithFallback ==
    TypeDone => /\ ret.kind = "return"
                /\ NoRuleMatches => ret.value = DefaultOrOther

(* C2, amended: the call returns and never throws, and when forceType is not
   "feat" and no rule of the cascade matches the result is
   options.defaultType if one was supplied and { type: "other" } otherwise. *)
C2_TotalWithFallbackUnforced ==
    TypeDone => /\ ret.kind = "return"
                /\ (~ForcedFeat /\ NoRuleMatches) => ret.value = DefaultOrOther

\* No rule matched "xyz" and the configured default came back.
C2_Witness ==
    /\ TypeDone /\ ~ForcedFeat /\ NoRuleMatches
    /\ call.options.kind = "object" /\ call.options.defaultType.kind = "object"
    /\ ret = Return(call.options.defaultType)

\* The words a stem makes with its allowed endings.
Forms(stem, endings) == {stem} \cup {stem \o e : e \in endings}
Endings == {"s", "ed", "ing"}
EEndings == {"e", "es", "ed", "ing"}
AddVerbs ==
    Forms("add", Endings) \cup Forms("allow", Endings) \cup Forms("creat", EEndings)
        \cup Forms("enabl", EEndings) \cup Forms("implement", Endings)
        \cup Forms("includ", EEndings) \cup Forms("incorporat", EEndings)
        \cup Forms("install", Endings) \cup Forms("introduc", EEndings)
        \cup Forms("support", Endings)
RemoveVerbs ==
    Forms("delet", EEndings) \cup Forms("deprecat", EEndings) \cup Forms("disabl", EEndings)
        \cup Forms("remov", EEndings) \cup Forms("uninstall", Endings)
\* The word a message starts with, in lower case.
FirstWord(message) ==
    LET low == toLowerCaseStr(message)
        n == CHOOSE k \in 0..Len(low) :
                /\ \A i \in 1..k : isWordChar(ch(low, i))
                /\ k = Len(low) \/ ~isWordChar(ch(low, k + 1))
    IN SubSeq(low, 1, n)

(* C3: with forceType "feat" the result is feat, with subtype add when the
   message starts with an add-verb, remove when it starts with a
   remove-verb, change in every other case, whatever else it would match. *)
C3_ForcedFeatSubtype ==
    (TypeDone /\ ForcedFeat)
        => ret = Return(TS("feat",
                    IF FirstWord(call.message) \in AddVerbs THEN "add"
                    ELSE IF FirstWord(call.message) \in RemoveVerbs THEN "remove"
                    ELSE "change"))

\* A forced feat whose message the cascade would have called a merge.
C3_Witness ==
    /\ TypeDone /\ ForcedFeat
    /\ call.message = "merge docs"
    /\ switchTrue(cascade, call.message) # 0
    /\ cascade[switchTrue(cascade, call.message)].result = T("merge")
    /\ ret = Return(TS("feat", "change"))

----------------------------------------------------------------------------
(* What the claims about getNotices speak of *)

NoticesDone == call.fn = "getNotices" /\ Done
\* The check in force: the label when none is given.
CheckInForce == IF call.check.kind = "null" THEN Text(call.label) ELSE call.check
\* A note title matches the check: the pattern of a pattern object or the
\* pattern written between the slashes of a string, else the string itself.
TitleMatches(check, title) ==
    IF check.kind = "regexp" THEN test(check.source, title)
    ELSE IF slashed(check.text) /\ Len(check.text) > 1
         THEN test(SubSeq(check.text, 2, Len(check.text) - 1), title)
    ELSE title = check.text
NotesOfCommit == IF call.commit.notes.kind = "array" THEN call.commit.notes.items ELSE <<>>
\* The texts of the notes whose title matches, in note order.
MatchingTexts ==
    LET matching == SelectSeq(NotesOfCommit, LAMBDA n : TitleMatches(CheckInForce, n.title))
    IN [i \in 1..Len(matching) |-> matching[i].text]
\* The commit's own breaking text stands in when no note matched.
BreakingStandsIn ==
    call.label = "BREAKING CHANGE" /\ call.commit.breaking.kind = "string"

(* C11: getNotices never throws, whether the check is a literal string or a
   pattern object, and returns an empty list when nothing matches. *)
C11_NeverThrows ==
    NoticesDone => /\ ret.kind = "return"
                   /\ (MatchingTexts = <<>> /\ ~BreakingStandsIn) => ret = Return(Arr(<<>>))

(* C12: a call that returns gives, in note order, the texts of exactly the
   notes whose title matches the check: the pattern of a pattern object or
   of a string between slashes, equality for a literal string, the label
   when no check is given. *)
C12_CollectsMatching ==
    (NoticesDone /\ ret.kind = "return" /\ (MatchingTexts # <<>> \/ ~BreakingStandsIn))
        => ret.value = Arr(MatchingTexts)

\* C12 for the checks that are literal strings, the defaulted label included.
C12_OnLiterals ==
    (NoticesDone /\ CheckInForce.kind = "string" /\ ~slashed(CheckInForce.text)
        /\ (MatchingTexts # <<>> \/ ~BreakingStandsIn))
        => ret = Return(Arr(MatchingTexts))

----------------------------------------------------------------------------
(* What the claims about parseCommitMessage speak of *)

ParseDone == call.fn = "parseCommitMessage" /\ Done
IsMerge == truthy(call.commit.merge)
IsRevert == truthy(call.commit.revert)

(* C15: a record with a truthy merge field comes back with type "merge",
   otherwise one with a truthy revert field with type "revert"; every other
   field is as it was, and neither the classifier nor the parser was called,
   whatever type the record declared. *)
C15_MergeRevertFirst ==
    (ParseDone /\ (IsMerge \/ IsRevert))
        => /\ ret = Return([call.commit EXCEPT
                                !.type = IF IsMerge THEN Text("merge") ELSE Text("revert")])
           /\ effects = <<>>

\* A record that declared fix and carries both a merge line and a revert
\* came back as a merge.
C15_Witness ==
    /\ ParseDone /\ IsMerge /\ IsRevert
    /\ call.commit.type = Text("fix")
    /\ ret.kind = "return" /\ ret.value.type = Text("merge")
    /\ ret.value.subject = call.commit.subject

\* The type the record declared, if it declared one.
DeclaresType == call.commit.type.kind \notin {"null", "undefined"}
\* What the classifier says of the record's subject (or header).
ClassifierResult ==
    classify(subjectOrHeader(call.commit), mergeParseOptions(call.options).defaultType,
             call.commit.type).value

(* C16: a commit returned for a record that is neither merge nor revert has
   the declared type when there is one and the classifier's type otherwise;
   its subtype is add, change or remove when the type is feat (change when
   the classifier found none) and false when the type is anything else. *)
C16_TypeAndSubtype ==
    (ParseDone /\ ~IsMerge /\ ~IsRevert /\ ret.kind = "return")
        => /\ ret.value.type = IF DeclaresType THEN call.commit.type
                               ELSE Text(ClassifierResult.type)
           /\ IF ret.value.type = Text("feat")
              THEN /\ ret.value.subType \in {Text("add"), Text("change"), Text("remove")}
                   /\ "subType" \notin DOMAIN ClassifierResult
                        => ret.value.subType = Text("change")
              ELSE ret.value.subType = False

\* No declared type, the classifier read "add api" as feat/add, and the
\* commit came back so.
C16_Witness ==
    /\ ParseDone /\ ~IsMerge /\ ~IsRevert /\ ~DeclaresType
    /\ call.commit.subject = Text("add api")
    /\ ret.kind = "return"
    /\ ret.value.type = Text("feat") /\ ret.value.subType = Text("add")

----------------------------------------------------------------------------
(* What the claims about getCommits speak of *)

CommitsDone == call.fn = "getCommits" /\ Done
\* The caller's ordering of the valid types (the module's when none is given).
TypeOrdering == mergeCommitsOptions(call.options).validTypes
\* A message the parser rejects, and the first position that holds one.
Rejected(k) == truthy(call.messages[k]) /\ parserParse(call.messages[k].text).kind = "throw"
SomeRejected == \E k \in 1..Len(call.messages) : Rejected(k)
FirstRejected ==
    CHOOSE k \in 1..Len(call.messages) : Rejected(k) /\ \A j \in 1..(k - 1) : ~Rejected(j)
GroupKeys == [i \in 1..Len(ret.value.groups) |-> ret.value.groups[i].key]
\* The rank of a key: its position in the ordering, past the end when it is
\* not listed.
RankOf(key) ==
    IF indexOf(TypeOrdering, key) = -1 THEN Len(TypeOrdering) ELSE indexOf(TypeOrdering, key)
\* The position of the first commit filed under the key.
FirstSeen(key) ==
    CHOOSE i \in 1..Len(ret.value.commits) :
        /\ keyOf(ret.value.commits[i]) = key
        /\ \A j \in 1..(i - 1) : keyOf(ret.value.commits[j]) # key

(* C13: when all messages were processed, the keys of groups are in the
   order of the caller's valid types, a key that is not listed comes after
   every listed key, and keys of equal rank are in first-seen order. *)
C13_GroupsInTypeOrder ==
    (CommitsDone /\ ~SomeRejected)
        => \A i, j \in 1..Len(GroupKeys) :
              i < j => \/ RankOf(GroupKeys[i]) < RankOf(GroupKeys[j])
                       \/ /\ RankOf(GroupKeys[i]) = RankOf(GroupKeys[j])
                          /\ FirstSeen(GroupKeys[i]) < FirstSeen(GroupKeys[j])

\* The order line 435 gives: keys that are not listed first, in first-seen
\* order, then the listed keys by position.
C13_UnlistedFirst ==
    (CommitsDone /\ ~SomeRejected)
        => \A i, j \in 1..Len(GroupKeys) :
              i < j => \/ indexOf(TypeOrdering, GroupKeys[i]) < indexOf(TypeOrdering, GroupKeys[j])
                       \/ /\ indexOf(TypeOrdering, GroupKeys[i]) = -1
                          /\ indexOf(TypeOrdering, GroupKeys[j]) = -1
                          /\ FirstSeen(GroupKeys[i]) < FirstSeen(GroupKeys[j])

\* The messages before the first rejected one that are not empty.
ProcessedBefore ==
    SelectSeq(SubSeq(call.messages, 1, FirstRejected - 1), LAMBDA m : truthy(m))

(* C14: when the i-th message makes the parser throw, getCommits returns all
   the same, the error logged, and commits holds exactly the commits of the
   non-empty messages before i, in order. *)
C14_PartialOnThrow ==
    (CommitsDone /\ SomeRejected)
        => /\ ret.kind = "return"
           /\ [i \in 1..Len(ret.value.commits) |-> ret.value.commits[i].raw] = ProcessedBefore
           /\ effects[Len(effects)].op = "console.log"

\* The second message was rejected and the commit of the first came back.
C14_Witness ==
    /\ CommitsDone /\ SomeRejected /\ FirstRejected = 2
    /\ Len(call.messages) = 2
    /\ ret.kind = "return" /\ Len(ret.value.commits) = 1
    /\ ret.value.commits[1].raw = call.messages[1]

----------------------------------------------------------------------------
(* What the claims about groupReleases speak of *)

GroupsDone == call.fn = "groupReleases" /\ Done /\ ret.kind = "return"
Buckets == ret.value.entries
BucketKeys == [i \in 1..Len(Buckets) |-> Buckets[i].key]
\* The version of the k-th release's tag, null when it has none.
Coerced(k) == coerce(call.releases[k].key)
Kept == {k \in 1..Len(call.releases) : Coerced(k) # Null}
ByMajor ==
    /\ call.groupBy.kind = "string"
    /\ call.groupBy.text \in {"major", "MAJOR", "Major"}
\* The bucket key the claim gives release k.
KeyOfRelease(k) ==
    IF ByMajor THEN <<Coerced(k).major>> ELSE <<Coerced(k).major, Coerced(k).minor>>
\* The releases of a bucket, in release iteration order.
RECURSIVE ReleasesIn(_, _)
ReleasesIn(group, k) ==
    IF k > Len(call.releases) THEN <<>>
    ELSE (IF k \in Kept /\ KeyOfRelease(k) = group THEN <<call.releases[k].value>> ELSE <<>>)
            \o ReleasesIn(group, k + 1)
\* The messages of a sequence of releases, one after the other.
RECURSIVE MessagesOf(_)
MessagesOf(rs) ==
    IF Len(rs) = 0 THEN <<>>
    ELSE (IF rs[1].messages.kind = "array" THEN rs[1].messages.items ELSE <<>>)
            \o MessagesOf(Tail(rs))
\* The commits of one type of one release.
TypeCommits(release, type) ==
    IF release.commits.kind = "object" /\ hasKey(release.commits.entries, type)
    THEN valueAt(release.commits.entries, type)
    ELSE <<>>
RECURSIVE CommitsOfType(_, _)
CommitsOfType(rs, type) ==
    IF Len(rs) = 0 THEN <<>>
    ELSE TypeCommits(rs[1], type) \o CommitsOfType(Tail(rs), type)
CommitTypes == {"fix", "feat"}

(* C17: every release whose tag coerces falls into exactly one bucket, keyed
   major.minor, or major when the granularity is "major" in any case; the
   messages and each commits[type] of a bucket are the concatenation, in
   release iteration order, of those of its releases. *)
C17_BucketsConcatenate ==
    GroupsDone
        => /\ \A k \in Kept : Cardinality({i \in 1..Len(Buckets) : BucketKeys[i] = KeyOfRelease(k)}) = 1
           /\ \A i \in 1..Len(Buckets) :
                /\ Buckets[i].value.tag = BucketKeys[i]
                /\ Buckets[i].value.messages = MessagesOf(ReleasesIn(BucketKeys[i], 1))
                /\ \A type \in CommitTypes :
                      CommitsOfType(ReleasesIn(BucketKeys[i], 1), type)
                          = (IF hasKey(Buckets[i].value.commits, type)
                             THEN valueAt(Buckets[i].value.commits, type) ELSE <<>>)
                /\ \A e \in 1..Len(Buckets[i].value.commits) :
                      Buckets[i].value.commits[e].key \in CommitTypes

\* Two releases with messages and commits of the same types went into one
\* bucket, by major, next to the bucket of another major.
C17_Witness ==
    /\ GroupsDone /\ ByMajor /\ Len(Buckets) = 2
    /\ \E i \in 1..Len(Buckets) :
          /\ Len(Buckets[i].value.messages) = 2
          /\ hasKey(Buckets[i].value.commits, "feat")
          /\ Len(valueAt(Buckets[i].value.commits, "feat")) = 2

\* The names and dates of a sequence of releases that have one.
RECURSIVE NamesOf(_)
NamesOf(rs) ==
    IF Len(rs) = 0 THEN <<>>
    ELSE (IF rs[1].name.kind = "string" THEN <<rs[1].name.text>> ELSE <<>>) \o NamesOf(Tail(rs))
RECURSIVE DatesOf(_)
DatesOf(rs) ==
    IF Len(rs) = 0 THEN <<>>
    ELSE (IF rs[1].date.kind = "string" THEN <<rs[1].date.text>> ELSE <<>>) \o DatesOf(Tail(rs))
\* The input with the releases of uncoercible tags taken out.
OnlyKept == SelectSeq(call.releases, LAMBDA e : coerce(e.key) # Null)

(* C18: a release whose tag does not coerce makes no bucket and adds no
   name, date, message or commit to any bucket; the releases with coercible
   tags of the same input are kept. *)
C18_UncoercibleDropped ==
    GroupsDone
        => /\ {BucketKeys[i] : i \in 1..Len(Buckets)} = {KeyOfRelease(k) : k \in Kept}
           /\ ret = groupReleases(OnlyKept, call.groupBy)
           /\ \A i \in 1..Len(Buckets) :
                /\ Buckets[i].value.name = orNull(joinComma(NamesOf(ReleasesIn(BucketKeys[i], 1))))
                /\ Buckets[i].value.date = Text(joinComma(DatesOf(ReleasesIn(BucketKeys[i], 1))))

\* A release with a name, messages and commits under a tag that holds no
\* version stood between two releases that were kept.
C18_Witness ==
    /\ GroupsDone /\ Len(call.releases) = 3
    /\ coerce(call.releases[2].key) = Null
    /\ call.releases[2].value.name.kind = "string"
    /\ call.releases[2].value.commits.kind = "object"
    /\ Len(Buckets) = 2

\* The position of the first release that falls into the bucket.
FirstIn(group) ==
    CHOOSE k \in Kept : KeyOfRelease(k) = group /\ \A j \in Kept : j < k => KeyOfRelease(j) # group

(* C19: the buckets of the result are iterated in the order in which each
   first appears among the input releases, for minor and for major
   granularity. *)
C19_BucketOrderPreserved ==
    GroupsDone
        => \A i, j \in 1..Len(Buckets) :
              i < j => FirstIn(BucketKeys[i]) < FirstIn(BucketKeys[j])

\* By minor the order of first appearance is kept.
C19_ByMinor ==
    (GroupsDone /\ ~ByMajor)
        => \A i, j \in 1..Len(Buckets) :
              i < j => FirstIn(BucketKeys[i]) < FirstIn(BucketKeys[j])

----------------------------------------------------------------------------
(* What the claims about buildChangelog speak of *)

BuildDone == call.fn = "buildChangelog" /\ Done
OnlyFirst == withDefaults(call.options).onlyFirst = True
\* The releases that have grouped commits, and the first of them.
HasCommits(k) ==
    /\ call.releases[k].value.commits.kind = "object"
    /\ Len(call.releases[k].value.commits.entries) > 0
SomeHasCommits == \E k \in 1..Len(call.releases) : HasCommits(k)
FirstWithCommits ==
    CHOOSE k \in 1..Len(call.releases) : HasCommits(k) /\ \A j \in 1..(k - 1) : ~HasCommits(j)
\* The changelog of that release alone.
OfFirstWithCommits == buildChangelog(<<call.releases[FirstWithCommits]>>, call.options)

(* C20: with onlyFirst set and some release that has grouped commits, the
   output holds the block of exactly one release, the first in iteration
   order that has grouped commits; the releases without are passed over. *)
C20_OnlyFirstEmitted ==
    (BuildDone /\ OnlyFirst /\ SomeHasCommits /\ OfFirstWithCommits.kind = "return")
        => ret = OfFirstWithCommits

\* What line 577 gives: the changelog of the first release alone, with or
\* without grouped commits.
C20_FirstReleaseOnly ==
    (BuildDone /\ OnlyFirst /\ Len(call.releases) > 0)
        => ret = buildChangelog(<<call.releases[1]>>, call.options)

\* No commit of the call carries notes, so that no notice is looked for.
NoNotes ==
    \A k \in 1..Len(call.releases) :
        \A e \in 1..Len(call.releases[k].value.commits.entries) :
            \A i \in 1..Len(call.releases[k].value.commits.entries[e].value) :
                call.releases[k].value.commits.entries[e].value[i].notes.kind # "array"
\* The releases the loop comes to.
Visited == IF OnlyFirst THEN {k \in 1..Len(call.releases) : k = 1} ELSE 1..Len(call.releases)
BuildTypes == withDefaults(call.options).types.entries
\* The scope a commit is grouped under: "" when it has none.
GroupScope(commit) == IF commit.scope.kind = "string" THEN commit.scope.text ELSE ""
InScope(commits, scope) == SelectSeq(commits, LAMBDA commit : GroupScope(commit) = scope)
\* The bullets of a group, in bucket order, indented under a scope.
Bullets(commits, indent) ==
    [i \in 1..Len(commits) |-> indent \o "- " \o escapeHTML(commits[i].subject.text)]
RECURSIVE ScopeGroups(_, _, _)
ScopeGroups(commits, scopes, k) ==
    IF k > Len(scopes) THEN <<>>
    ELSE <<"- " \o scopes[k]>> \o Bullets(InScope(commits, scopes[k]), "  ")
            \o ScopeGroups(commits, scopes, k + 1)
\* The section the claim prescribes: the unscoped bullets, then scope after
\* scope in lexicographic order.
SectionOf(title, commits) ==
    <<"### " \o title, "">>
        \o Bullets(InScope(commits, ""), "")
        \o ScopeGroups(commits, sortAsc({GroupScope(commits[i]) : i \in 1..Len(commits)} \ {""}), 1)
        \o <<"">>
\* sub is a run of consecutive lines of lines.
Within(lines, sub) ==
    \E at0 \in 0..(Len(lines) - Len(sub)) : SubSeq(lines, at0 + 1, at0 + Len(sub)) = sub
\* The sections of the rendered types are in the output, as prescribed.
SectionsAsPrescribed ==
    /\ ret.kind = "return"
    /\ \A k \in Visited :
          \A t \in 1..Len(BuildTypes) :
              hasKey(call.releases[k].value.commits.entries, BuildTypes[t].key)
                  => Within(ret.value.items,
                            SectionOf(BuildTypes[t].value,
                                      valueAt(call.releases[k].value.commits.entries,
                                              BuildTypes[t].key)))
\* A commit of the call has a scope that is the name of an inherited property.
InheritedScope ==
    \E k \in 1..Len(call.releases) :
        \E e \in 1..Len(call.releases[k].value.commits.entries) :
            misfiled(call.releases[k].value.commits.entries[e].value)

(* C21: in each rendered type section the commits are grouped by scope, the
   unscoped group first as unindented bullets, then each scope in
   lexicographic order as a label line and its commits as indented bullets,
   the commits of a group in bucket order. *)
C21_ScopesInOrder ==
    (BuildDone /\ NoNotes) => SectionsAsPrescribed

\* For scopes that are no inherited property name the sections are as
\* prescribed.
C21_OnOwnScopes ==
    (BuildDone /\ NoNotes /\ ~InheritedScope) => SectionsAsPrescribed

----------------------------------------------------------------------------
(* What the claim about the pipeline's inputs speaks of *)

PipelineDone == call.fn \in {"getCommits", "groupReleases", "buildChangelog"} /\ Done

(* C23: after getCommits, groupReleases and buildChangelog the messages, the
   releases with their commits arrays and the options object the caller
   passed are what they were before the call. *)
C23_InputsUnmodified ==
    PipelineDone => passed = call

----------------------------------------------------------------------------
(* What the claims about the commits of getCommits speak of *)

ReturnedCommits == ret.value.commits
\* The caller passed a validTypes list of its own.
OwnTypes == call.options.kind = "object"
\* What the parser made of the message a commit came from.
FirstParse(commit) == parserParse(commit.raw.text).value
\* The commit declares a type that is in the caller's list.
DeclaredValid(commit) ==
    /\ FirstParse(commit).type.kind = "string"
    /\ indexOf(call.options.validTypes, FirstParse(commit).type.text) # -1
\* The synthetic header the normalizer reparses a commit under.
Synthetic(commit) == Parsed(FirstParse(commit).type.text \o ": " \o commit.raw.text)
WasParsed(effect) == \E e \in 1..Len(effects) : effects[e] = effect
KeptAsParsed(commit) ==
    /\ commit.type = FirstParse(commit).type
    /\ commit.subject = FirstParse(commit).subject
    /\ commit.header = FirstParse(commit).header
    /\ ~WasParsed(Synthetic(commit))

(* C24: with a validTypes list of the caller's, a message whose declared
   type is in that list comes back with what the parser made of it and is
   never reparsed under the header "<type>: <original message>". *)
C24_JudgedByCallersList ==
    (CommitsDone /\ OwnTypes)
        => \A i \in 1..Len(ReturnedCommits) :
              DeclaredValid(ReturnedCommits[i]) => KeptAsParsed(ReturnedCommits[i])

\* For a declared type that is in the module's list as well, the commit is
\* kept as it was parsed.
C24_OnModuleTypes ==
    (CommitsDone /\ OwnTypes)
        => \A i \in 1..Len(ReturnedCommits) :
              (/\ DeclaredValid(ReturnedCommits[i])
               /\ indexOf(validTypes, FirstParse(ReturnedCommits[i]).type.text) # -1)
                  => KeptAsParsed(ReturnedCommits[i])

\* The messages that are not empty, in input order.
NonEmpty == SelectSeq(call.messages, LAMBDA m : truthy(m))
\* The key the claim gives a commit.
BucketKey(commit) ==
    IF commit.subType.kind = "string" THEN commit.type.text \o "_" \o commit.subType.text
    ELSE commit.type.text
Filed(key) == SelectSeq(ReturnedCommits, LAMBDA commit : BucketKey(commit) = key)

(* C25: when nothing throws, there is one commit per non-empty message, in
   input order, and the groups partition the commits: each bucket holds, in
   input order, exactly the commits whose key (type_subtype, or type when
   there is no subtype) is the bucket's, and no key names two buckets. *)
C25_GroupsPartition ==
    (CommitsDone /\ ~SomeRejected)
        => /\ ret.kind = "return"
           /\ [i \in 1..Len(ReturnedCommits) |-> ReturnedCommits[i].raw] = NonEmpty
           /\ \A i \in 1..Len(ReturnedCommits) :
                 \E g \in 1..Len(ret.value.groups) :
                    ret.value.groups[g].key = BucketKey(ReturnedCommits[i])
           /\ \A g \in 1..Len(ret.value.groups) :
                 /\ ret.value.groups[g].value = Filed(ret.value.groups[g].key)
                 /\ \A h \in 1..Len(ret.value.groups) :
                       ret.value.groups[h].key = ret.value.groups[g].key => h = g

\* Two commits of different messages went into one bucket that has the
\* subtype in its key.
C25_Witness ==
    /\ CommitsDone /\ ~SomeRejected /\ ret.kind = "return"
    /\ Len(ReturnedCommits) = 2
    /\ ReturnedCommits[1].raw # ReturnedCommits[2].raw
    /\ Len(ret.value.groups) = 1
    /\ ret.value.groups[1].key = "feat_add"

----------------------------------------------------------------------------
(* What the claim about getRepoData speaks of *)

RepoCalled == call.fn = "getRepoData"

RepoDone == RepoCalled /\ ret.kind = "return"

\* The limit and the page size in force for the call.
LimitOf == mergeRepoOptions(call.options).limit

PerPageOf == threshold(mergeRepoOptions(call.options).params)

PagesServed == call.api[call.endpoint]

\* The items of the first n pages, in page order.
RECURSIVE Concatenated(_, _)
Concatenated(pages, n) ==
    IF n = 0 THEN <<>>
    ELSE Concatenated(pages, n - 1) \o (IF pages[n].kind = "page" THEN pages[n].data ELSE <<>>)

IsPrefix(head, whole) == Len(head) <= Len(whole) /\ head = SubSeq(whole, 1, Len(head))

\* Before page n the limit was not reached and no page came short.
MayAsk(pages, n) ==
    /\ Len(Concatenated(pages, n - 1)) < LimitOf.n
    /\ \A p \in 1..(n - 1) : pages[p].kind = "page" /\ Len(pages[p].data) >= PerPageOf

PagesAsked == {effects[e].page : e \in {x \in 1..Len(effects) : effects[x].op = "request"}}

(* C26: for every limit >= 1 and every sequence of pages, getRepoData returns
   at most limit items, the returned items are a prefix, in page order, of the
   concatenation of the pages, and no page is requested once the limit has
   been reached or a page shorter than per_page has been received. *)
C26_LimitPrefixAndStop ==
    (RepoCalled /\ LimitOf.kind = "number" /\ LimitOf.n >= 1) =>
        /\ \A n \in PagesAsked : MayAsk(PagesServed, n)
        /\ RepoDone =>
            /\ Len(ret.value.items) <= LimitOf.n
            /\ IsPrefix(ret.value.items, Concatenated(PagesServed, Len(PagesServed)))

\* The limit is reached in the middle of the second page while a third page
\* waits unasked.
C26_Witness ==
    /\ RepoDone /\ LimitOf = Num(3)
    /\ Len(ret.value.items) = 3
    /\ Len(Concatenated(PagesServed, 2)) > 3
    /\ Len(PagesServed) = 3 /\ PagesAsked = {1, 2}

----------------------------------------------------------------------------
(* What the claim about filterRepoData's join speaks of *)

FilterCalled == call.fn = "filterRepoData"

Failures == {inflight[e].error : e \in {x \in 1..Len(inflight) : inflight[x].status = "rejected"}}

AllSucceeded ==
    Len(inflight) = Len(Endpoints) /\ \A e \in 1..Len(inflight) : inflight[e].status = "fulfilled"

Requests == SelectSeq(effects, LAMBDA effect : effect.op = "request")

\* No page of an endpoint is asked for twice.
NoRetry == \A a, b \in 1..Len(Requests) : Requests[a] = Requests[b] => a = b

\* At most one failure per fetch, and a fetch that failed asks for nothing more.
FailedOnce ==
    \A e \in 1..Len(inflight) :
        inflight[e].status = "rejected" =>
            /\ call.api[inflight[e].endpoint][inflight[e].asked].kind = "failed"
            /\ \A r \in 1..Len(Requests) :
                   Requests[r].endpoint = inflight[e].endpoint => Requests[r].page <= inflight[e].asked

Joined ==
    FilterCalled =>
        /\ Failures # {} => (ret.kind = "throw" /\ ret.error \in Failures)
        /\ ret.kind = "return" => AllSucceeded
        /\ NoRetry /\ FailedOnce

\* Once filterRepoData has failed or returned, the outcome stays.
Settles == (FilterCalled /\ ret # Pending) => ret' = ret

(* C22: filterRepoData joins the three fetches, which complete in any order,
   all or nothing: as soon as one of them fails the call fails with that
   error and keeps failing with it, no page is asked for again, and a result
   is returned only when all three fetches have succeeded. *)
C22_AllOrNothing == []Joined /\ [][Settles]_vars

\* One fetch has already delivered its array when another fails on a later
\* page: the call fails with the failure, and none of the array is returned.
C22_Witness ==
    /\ FilterCalled /\ ret = Throw(Text("listCommits failed"))
    /\ inflight[1].status = "rejected" /\ inflight[1].items # <<>>
    /\ inflight[3].status = "fulfilled" /\ inflight[3].items # <<>>
    /\ inflight[2].status = "running"

====
